---- MODULE Spec2Model ----
(***************************************************************************)
(* serde_datalog: the extraction engine (DatalogExtractor, src/src/lib.rs) *)
(* driving the in-memory backends (src/src/backend/vector.rs).             *)
(*                                                                         *)
(* The engine is a serde Serializer: a value's Serialize impl calls the    *)
(* serialize_* methods recursively.  The recursion is modelled by `ctl`,   *)
(* the stack of Rust frames that wait for an inner value.serialize(..) to  *)
(* return; a method that recurses in its middle is split at the recursive  *)
(* call into an `enter_*` step and the step that carries its name.  The    *)
(* value being serialized is not fixed in advance: at every place where    *)
(* the protocol asks for a value, the driver picks any shape.              *)
(***************************************************************************)
EXTENDS Integers, Sequences, FiniteSets, TLC

(* ------------------------------ bounds -------------------------------- *)
\* elements started on one extractor
MaxElems == 3
\* composite values (containers, wrappers) nested inside one another
MaxDepth == 2
\* top-level serialize calls on one extractor
MaxValues == 2
\* uses, in one run, of operations outside the run's common operations
MaxRare == 1
\* width of isize / i64 / u64 in the model (64 in the build)
NumBits == 6
\* intern_string calls made on one backend directly
MaxInterns == 4

(* --------------------------- input alphabets --------------------------- *)
BoolVals == {TRUE}
\* values every signed and every unsigned width holds
SignedVals == {3}
UnsignedVals == {3}
I64Vals == {10}
U64Vals == {10, 2^NumBits - 1}
StrVals == {"a"}
\* chars are Unicode scalar values: 98 is 'b'
CharVals == {98}
StructNames == {"Foo"}
\* a variant whose name is also a type tag
VariantNames == {"Unit"}
\* the newtype variants of the documented enum Foo { A(Box<Foo>), B(i64) }
FooVariants == {"A", "B"}
FieldNames == {"x", "a"}
Files == {"f1"}
\* the file names of a caller that extracts several files
ManyFiles == {"f1", "f2"}
BackendKinds == {"elem", "string"}

(* ------------------------------ results -------------------------------- *)
Ok == <<"Ok">>
UnextractableData == <<"UnextractableData">>
NonuniqueRootElement(file) == <<"NonuniqueRootElement", file>>
NonuniqueIdentifier(elem) == <<"NonuniqueIdentifier", elem>>
IntegerCastOverflow(value) == <<"IntegerCastOverflow", value>>
\* a failed assert! or unwrap(): the thread panics
Panic == <<"panic">>

(* ------------------------- type-tag names ------------------------------ *)
BOOL_NAME == "Bool"
NUMBER_NAME == "Number"
STR_NAME == "Str"
MAP_NAME == "Map"
SEQ_NAME == "Seq"
STRUCT_NAME == "Struct"
STRUCT_VARIANT_NAME == "StructVariant"
TUPLE_NAME == "Tuple"
TUPLE_STRUCT_NAME == "TupleStruct"
TUPLE_VARIANT_NAME == "TupleVariant"
UNIT_NAME == "Unit"
UNIT_STRUCT_NAME == "UnitStruct"
UNIT_VARIANT_NAME == "UnitVariant"

ElemType == {"Bool", "I8", "I16", "I32", "I64", "U8", "U16", "U32", "U64",
             "F32", "F64", "Char", "Str", "Bytes", "Map", "NewtypeStruct",
             "NewtypeVariant", "Seq", "Struct", "StructVariant", "Tuple",
             "TupleStruct", "TupleVariant", "Unit", "UnitStruct",
             "UnitVariant"}

(* ----------------------------- helpers --------------------------------- *)
\* HashMap::insert: the new value replaces an old one
Insert(m, k, v) == [x \in (DOMAIN m) \cup {k} |-> IF x = k THEN v ELSE m[x]]
\* a variant of Remove that drops every row
RemoveAll(m, k) == [x \in {} |-> m[x]]
\* HashMap::remove
Remove(m, k) == [x \in (DOMAIN m) \ {k} |-> m[x]]
EmptyMap == <<>>
Last(s) == s[Len(s)]
Front(s) == SubSeq(s, 1, Len(s) - 1)
Range(s) == {s[i] : i \in DOMAIN s}

\* `value as isize` for a u64 value: two's complement reinterpretation
u64_as_isize(v) == IF v >= 2^(NumBits - 1) THEN v - 2^NumBits ELSE v
\* `value as isize` for an i64 value: same width, same value
i64_as_isize(v) == v

\* the widths of the integer types, scaled down with NumBits: 8, 16, 32 and
\* 64 bits become NumBits - 3 .. NumBits
IntBits(elem_type) ==
  CASE elem_type \in {"I8", "U8"} -> NumBits - 3
    [] elem_type \in {"I16", "U16"} -> NumBits - 2
    [] elem_type \in {"I32", "U32"} -> NumBits - 1
    [] elem_type \in {"I64", "U64"} -> NumBits

\* a variant of as_i64 that fills the upper bits with zeros
as_i64_zero_filled(value, bits) == value % 2^bits

\* `value as i64` for a signed value of `bits` bits: the two's complement
\* pattern is sign-extended to the width of i64 and read as an i64
as_i64(value, bits) ==
  LET narrow == value % 2^bits
      wide == IF narrow >= 2^(bits - 1)
              THEN narrow + (2^NumBits - 2^bits) ELSE narrow
  IN IF wide >= 2^(NumBits - 1) THEN wide - 2^NumBits ELSE wide

\* `value as u64` for an unsigned value of `bits` bits: the pattern is
\* zero-extended
as_u64(value, bits) == value % 2^bits

\* char::to_string: the string of the one scalar value
to_string(ch) ==
  CASE ch = 97 -> "a"
    [] ch = 98 -> "b"

\* str::chars: the scalar values of a string
chars(str) ==
  CASE str = "a" -> <<97>>
    [] str = "b" -> <<98>>
    [] str = "x" -> <<120>>
    [] str = "Foo" -> <<70, 111, 111>>
    [] OTHER -> <<0, 0>>

(***************************************************************************)
(* The in-memory backend: AbstractBackend<K> with K = ElemId (Backend,     *)
(* kind "elem") or K = SymbolId (StringKeyBackend, kind "string").         *)
(* A backend operation takes the backend b and returns [b, res].           *)
(***************************************************************************)
\* a variant of intern_string that never looks the string up
intern_string_always_new(b, s) ==
  [b |-> [b EXCEPT !.symbol_table = Insert(@, s, b.cur_symbol_id),
                   !.cur_symbol_id = @ + 1],
   id |-> b.cur_symbol_id]

intern_string(b, s) ==
  IF s \in DOMAIN b.symbol_table
  THEN [b |-> b, id |-> b.symbol_table[s]]
  ELSE [b |-> [b EXCEPT !.symbol_table = Insert(@, s, b.cur_symbol_id),
                        !.cur_symbol_id = @ + 1],
        id |-> b.cur_symbol_id]

InternAll(b, names) ==
  LET RECURSIVE go(_, _)
      go(bb, i) == IF i > Len(names) THEN bb
                   ELSE go(intern_string(bb, names[i]).b, i + 1)
  IN go(b, 1)

BackendData(kind) ==
  [kind |-> kind,
   cur_symbol_id |-> 1,
   symbol_table |-> EmptyMap,
   root_elem_table |-> EmptyMap,
   type_table |-> <<>>,
   bool_table |-> EmptyMap,
   number_table |-> EmptyMap,
   string_table |-> EmptyMap,
   map_table |-> EmptyMap,
   struct_type_table |-> EmptyMap,
   struct_table |-> EmptyMap,
   seq_table |-> EmptyMap,
   variant_type_table |-> EmptyMap,
   tuple_table |-> EmptyMap]

\* the type-tag names, in the order the constructor interns them
TypeTagNames ==
  <<BOOL_NAME, NUMBER_NAME, STR_NAME, MAP_NAME, SEQ_NAME, STRUCT_NAME,
    STRUCT_VARIANT_NAME, TUPLE_NAME, TUPLE_STRUCT_NAME, TUPLE_VARIANT_NAME,
    UNIT_NAME, UNIT_STRUCT_NAME, UNIT_VARIANT_NAME>>

\* a variant of DefaultBackend that interns nothing at construction
DefaultBackendNoTags(kind) == BackendData(kind)

DefaultBackend(kind) == InternAll(BackendData(kind), TypeTagNames)

\* a variant of TypeName that files floats and byte arrays under a tag
TypeNameWithFloats(elem_type) ==
  CASE elem_type = "Bool" -> BOOL_NAME
    [] elem_type \in {"I8", "I16", "I32", "I64", "U8", "U16", "U32", "U64",
                      "F32", "F64"} -> NUMBER_NAME
    [] elem_type \in {"Char", "Str", "Bytes"} -> STR_NAME
    [] elem_type = "Map" -> MAP_NAME
    [] elem_type = "Seq" -> SEQ_NAME
    [] elem_type = "Struct" -> STRUCT_NAME
    [] elem_type = "StructVariant" -> STRUCT_VARIANT_NAME
    [] elem_type = "Tuple" -> TUPLE_NAME
    [] elem_type \in {"TupleStruct", "NewtypeStruct"} -> TUPLE_STRUCT_NAME
    [] elem_type \in {"TupleVariant", "NewtypeVariant"} -> TUPLE_VARIANT_NAME
    [] elem_type = "Unit" -> UNIT_NAME
    [] elem_type = "UnitStruct" -> UNIT_STRUCT_NAME
    [] elem_type = "UnitVariant" -> UNIT_VARIANT_NAME

\* a variant of TypeName that files a newtype struct as a struct and a
\* newtype variant as a struct variant
TypeNameNewtypeAsStruct(elem_type) ==
  CASE elem_type = "Bool" -> BOOL_NAME
    [] elem_type \in {"I8", "I16", "I32", "I64", "U8", "U16", "U32", "U64"}
         -> NUMBER_NAME
    [] elem_type \in {"Char", "Str"} -> STR_NAME
    [] elem_type \in {"F32", "F64", "Bytes"} -> ""
    [] elem_type = "Map" -> MAP_NAME
    [] elem_type = "Seq" -> SEQ_NAME
    [] elem_type \in {"Struct", "NewtypeStruct"} -> STRUCT_NAME
    [] elem_type \in {"StructVariant", "NewtypeVariant"} -> STRUCT_VARIANT_NAME
    [] elem_type = "Tuple" -> TUPLE_NAME
    [] elem_type = "TupleStruct" -> TUPLE_STRUCT_NAME
    [] elem_type = "TupleVariant" -> TUPLE_VARIANT_NAME
    [] elem_type = "Unit" -> UNIT_NAME
    [] elem_type = "UnitStruct" -> UNIT_STRUCT_NAME
    [] elem_type = "UnitVariant" -> UNIT_VARIANT_NAME

\* the tag add_elem files an element type under; "" for the rejected types
TypeName(elem_type) ==
  CASE elem_type = "Bool" -> BOOL_NAME
    [] elem_type \in {"I8", "I16", "I32", "I64", "U8", "U16", "U32", "U64"}
         -> NUMBER_NAME
    [] elem_type \in {"Char", "Str"} -> STR_NAME
    [] elem_type \in {"F32", "F64", "Bytes"} -> ""
    [] elem_type = "Map" -> MAP_NAME
    [] elem_type = "Seq" -> SEQ_NAME
    [] elem_type = "Struct" -> STRUCT_NAME
    [] elem_type = "StructVariant" -> STRUCT_VARIANT_NAME
    [] elem_type = "Tuple" -> TUPLE_NAME
    [] elem_type \in {"TupleStruct", "NewtypeStruct"} -> TUPLE_STRUCT_NAME
    [] elem_type \in {"TupleVariant", "NewtypeVariant"} -> TUPLE_VARIANT_NAME
    [] elem_type = "Unit" -> UNIT_NAME
    [] elem_type = "UnitStruct" -> UNIT_STRUCT_NAME
    [] elem_type = "UnitVariant" -> UNIT_VARIANT_NAME

\* a variant of add_elem that accepts the element and files no type row
add_elem_no_type_row(b, elem, elem_type) ==
  IF TypeName(elem_type) = ""
  THEN [b |-> b, res |-> UnextractableData]
  ELSE [b |-> intern_string(b, TypeName(elem_type)).b, res |-> Ok]

add_elem(b, elem, elem_type) ==
  IF TypeName(elem_type) = ""
  THEN [b |-> b, res |-> UnextractableData]
  ELSE LET r == intern_string(b, TypeName(elem_type))
       IN [b |-> [r.b EXCEPT !.type_table = Append(@, <<elem, r.id>>)],
           res |-> Ok]

\* assert!(table.insert(key, value).is_none()): insert replaces, then the
\* assertion decides
AssertInsert(b, table, key, value) ==
  [b |-> [b EXCEPT ![table] = Insert(@, key, value)],
   res |-> IF key \in DOMAIN b[table] THEN Panic ELSE Ok]

\* add_root_elem is not part of src/backend/vector.rs; its contract is the
\* one the interface states: one root per file, a second one is an error
add_root_elem(b, file, elem) ==
  LET r == intern_string(b, file)
  IN IF r.id \in DOMAIN r.b.root_elem_table
     THEN [b |-> r.b, res |-> NonuniqueRootElement(file)]
     ELSE [b |-> [r.b EXCEPT !.root_elem_table = Insert(@, r.id, elem)],
           res |-> Ok]

add_bool(b, elem, value) == AssertInsert(b, "bool_table", elem, value)

add_i64(b, elem, value) ==
  AssertInsert(b, "number_table", elem, i64_as_isize(value))

add_u64(b, elem, value) ==
  AssertInsert(b, "number_table", elem, u64_as_isize(value))

add_f64(b, elem, value) == [b |-> b, res |-> UnextractableData]

add_bytes(b, elem, value) == [b |-> b, res |-> UnextractableData]

\* a variant of add_str that interns the string and files no string row
add_str_unfiled(b, elem, value) ==
  [b |-> intern_string(b, value).b, res |-> Ok]

add_str(b, elem, value) ==
  LET r == intern_string(b, value)
  IN AssertInsert(r.b, "string_table", elem, r.id)

add_struct_type(b, elem, struct_name) ==
  LET r == intern_string(b, struct_name)
  IN AssertInsert(r.b, "struct_type_table", elem, r.id)

add_struct_entry(b, elem, key, value) ==
  LET r == intern_string(b, key)
  IN AssertInsert(r.b, "struct_table", <<elem, r.id>>, value)

add_seq_entry(b, elem, pos, value) ==
  AssertInsert(b, "seq_table", <<elem, pos>>, value)

add_variant_type(b, elem, type_name, variant_name) ==
  LET r1 == intern_string(b, type_name)
      r2 == intern_string(r1.b, variant_name)
  IN AssertInsert(r2.b, "variant_type_table", elem, <<r1.id, r2.id>>)

add_tuple_entry(b, elem, pos, value) ==
  AssertInsert(b, "tuple_table", <<elem, pos>>, value)

\* Backend::add_map_entry: the row is keyed by the key element
Backend_add_map_entry(b, elem, key, value) ==
  AssertInsert(b, "map_table", <<elem, key>>, value)

\* a variant of StringKeyBackend::add_map_entry that reads the key's string
\* fact and leaves it in the string table
StringKeyBackend_add_map_entry_keep(b, elem, key, value) ==
  IF key \in DOMAIN b.string_table
  THEN AssertInsert(b, "map_table", <<elem, b.string_table[key]>>, value)
  ELSE [b |-> b, res |-> UnextractableData]

\* StringKeyBackend::add_map_entry: the key's string fact is taken out of
\* the string table and its symbol becomes the row's key
StringKeyBackend_add_map_entry(b, elem, key, value) ==
  IF key \in DOMAIN b.string_table
  THEN AssertInsert([b EXCEPT !.string_table = Remove(@, key)],
                    "map_table", <<elem, b.string_table[key]>>, value)
  ELSE [b |-> b, res |-> UnextractableData]

\* a variant of add_map_entry under which both backends key the row by the
\* key element
add_map_entry_by_elem(b, elem, key, value) ==
  Backend_add_map_entry(b, elem, key, value)

add_map_entry(b, elem, key, value) ==
  IF b.kind \in {"string", "sqlite_string"}
  THEN StringKeyBackend_add_map_entry(b, elem, key, value)
  ELSE Backend_add_map_entry(b, elem, key, value)

(***************************************************************************)
(* The trait DatalogExtractorBackend.  A call on a backend runs the        *)
(* method of the backend's impl block when there is one and the trait's    *)
(* default method otherwise.  Besides the two in-memory backends, two      *)
(* relational backends (kinds "sqlite" and "sqlite_string") hold an        *)
(* in-memory backend and delegate to it, and two minimal implementors are  *)
(* modelled on the in-memory data: "wide" has the two required methods and *)
(* add_i64, add_u64, add_f64, add_str; "bare" has the two required methods *)
(* only.                                                                   *)
(***************************************************************************)
\* the methods souffle_sqlite::Backend and souffle_sqlite::StringKeyBackend
\* delegate to the in-memory backend they hold
DelegatedMethods ==
  {"add_root_elem", "add_elem", "add_bool", "add_i64", "add_u64", "add_str",
   "add_map_entry", "add_struct_type", "add_struct_entry", "add_seq_entry",
   "add_variant_type", "add_tuple_entry"}

InMemoryMethods ==
  {"add_root_elem", "add_elem", "add_bool", "add_i64", "add_u64", "add_f64",
   "add_bytes", "add_str", "add_struct_type", "add_struct_entry",
   "add_seq_entry", "add_variant_type", "add_tuple_entry", "add_map_entry"}

\* add_root_elem and add_elem have no default: every impl block has them
RequiredMethods == {"add_root_elem", "add_elem"}

Overrides(kind) ==
  CASE kind \in {"elem", "string"} -> InMemoryMethods
    [] kind \in {"sqlite", "sqlite_string"} -> DelegatedMethods
    [] kind = "wide" ->
         RequiredMethods \cup {"add_i64", "add_u64", "add_f64", "add_str"}
    [] kind = "bare" -> RequiredMethods

\* the method of the impl block; a is the argument list after self
Impl(b, method, a) ==
  CASE method = "add_root_elem" -> add_root_elem(b, a[1], a[2])
    [] method = "add_elem" -> add_elem(b, a[1], a[2])
    [] method = "add_bool" -> add_bool(b, a[1], a[2])
    [] method = "add_i64" -> add_i64(b, a[1], a[2])
    [] method = "add_u64" -> add_u64(b, a[1], a[2])
    [] method = "add_f64" -> add_f64(b, a[1], a[2])
    [] method = "add_bytes" -> add_bytes(b, a[1], a[2])
    [] method = "add_str" -> add_str(b, a[1], a[2])
    [] method = "add_struct_type" -> add_struct_type(b, a[1], a[2])
    [] method = "add_struct_entry" -> add_struct_entry(b, a[1], a[2], a[3])
    [] method = "add_seq_entry" -> add_seq_entry(b, a[1], a[2], a[3])
    [] method = "add_variant_type" -> add_variant_type(b, a[1], a[2], a[3])
    [] method = "add_tuple_entry" -> add_tuple_entry(b, a[1], a[2], a[3])
    [] method = "add_map_entry" -> add_map_entry(b, a[1], a[2], a[3])

\* the error of a default method: it names the kind of data
UnextractableDataOf(data) == <<"UnextractableData", data>>

\* the kind a default method names
DefaultKind(method) ==
  CASE method = "add_bool" -> "bool"
    [] method = "add_i64" -> "i64"
    [] method = "add_u64" -> "u64"
    [] method = "add_f64" -> "f64"
    [] method = "add_str" -> "str"
    [] method = "add_bytes" -> "bytes"
    [] method = "add_map_entry" -> "map entry"
    [] method = "add_struct_type" -> "struct type"
    [] method = "add_struct_entry" -> "struct entry"
    [] method = "add_seq_entry" -> "seq entry"
    [] method = "add_variant_type" -> "variant type"
    [] method = "add_tuple_entry" -> "tuple entry"

\* the default methods that end in an error
ErrorDefaults ==
  {"add_bool", "add_i64", "add_u64", "add_f64", "add_str", "add_bytes",
   "add_map_entry", "add_struct_type", "add_struct_entry", "add_seq_entry",
   "add_variant_type", "add_tuple_entry"}

\* self.<method>(..) from inside a default method
self_call(b, method, a) ==
  IF method \in Overrides(b.kind) THEN Impl(b, method, a)
  ELSE [b |-> b, res |-> UnextractableDataOf(DefaultKind(method))]

\* a variant of add_f32 that ends in an error of its own
add_f32_unextractable(b, elem, value) ==
  [b |-> b, res |-> UnextractableDataOf("f32")]

\* the trait's default methods of the narrow types: they forward to the
\* wide method of self
add_i8(b, elem, value) ==
  self_call(b, "add_i64", <<elem, as_i64(value, IntBits("I8"))>>)
add_i16(b, elem, value) ==
  self_call(b, "add_i64", <<elem, as_i64(value, IntBits("I16"))>>)
add_i32(b, elem, value) ==
  self_call(b, "add_i64", <<elem, as_i64(value, IntBits("I32"))>>)
add_u8(b, elem, value) ==
  self_call(b, "add_u64", <<elem, as_u64(value, IntBits("U8"))>>)
add_u16(b, elem, value) ==
  self_call(b, "add_u64", <<elem, as_u64(value, IntBits("U16"))>>)
add_u32(b, elem, value) ==
  self_call(b, "add_u64", <<elem, as_u64(value, IntBits("U32"))>>)
\* `value as f64` is exact: every f32 is an f64
add_f32(b, elem, value) == self_call(b, "add_f64", <<elem, value>>)
add_char(b, elem, value) == self_call(b, "add_str", <<elem, to_string(value)>>)

ForwardingDefaults ==
  {"add_i8", "add_i16", "add_i32", "add_u8", "add_u16", "add_u32",
   "add_f32", "add_char"}

\* a variant of Default under which every default method succeeds and
\* does nothing
DefaultOk(b, method, a) == [b |-> b, res |-> Ok]

\* the trait's default method
Default(b, method, a) ==
  CASE method = "add_i8" -> add_i8(b, a[1], a[2])
    [] method = "add_i16" -> add_i16(b, a[1], a[2])
    [] method = "add_i32" -> add_i32(b, a[1], a[2])
    [] method = "add_u8" -> add_u8(b, a[1], a[2])
    [] method = "add_u16" -> add_u16(b, a[1], a[2])
    [] method = "add_u32" -> add_u32(b, a[1], a[2])
    [] method = "add_f32" -> add_f32(b, a[1], a[2])
    [] method = "add_char" -> add_char(b, a[1], a[2])
    [] method \in ErrorDefaults ->
         [b |-> b, res |-> UnextractableDataOf(DefaultKind(method))]

\* backend.<method>(..) as the caller of the trait sees it
Dispatch(b, method, a) ==
  IF method \in Overrides(b.kind) THEN Impl(b, method, a)
  ELSE Default(b, method, a)

\* backend.<method>(..) where the call names a method whose default ends in
\* an error: own is the method of the impl block, taken when there is one
Resolved(b, method, own) ==
  IF method \in Overrides(b.kind) THEN own
  ELSE [b |-> b, res |-> UnextractableDataOf(DefaultKind(method))]

(***************************************************************************)
(* The extraction engine.  VARIABLES are the fields of DatalogExtractor,   *)
(* the driver's position, and history variables (marked so) that record    *)
(* what the driver serialized.                                             *)
(***************************************************************************)
VARIABLES
  cur_file,      \* Option<String>: "" for None
  cur_elem_id,
  elem_stack,
  parent_stack,  \* sequence of <<container id, position>>
  backend,
  pc,            \* "idle" | "call" | "open" | "ret" | "panic"
  ctl,           \* the frames waiting for an inner serialize call
  result,        \* what the last top-level serialize call returned
  nvalues,       \* top-level serialize calls made so far
  op,            \* the method that took the last step
  calls,         \* the backend calls the last step made, with their results
  lastId,        \* history: the ElemId of the value that just returned
  allocated,     \* history: the ElemIds handed out, in allocation order
  tree,          \* history: composite id -> [k, kids] as the driver saw it
  cnt,           \* history: nodes of the input, by kind
  failed,        \* history: some serialize call returned an error
  core,          \* input profile: the operations the caller uses freely
  rare,          \* input profile: uses of other operations so far
  seen,          \* history: the intern_string calls made on the backend
                 \* directly, each with the SymbolId it returned
  db,            \* dump_to_db: the SQLite file and the statements to run
  other,         \* a second extractor with a backend of its own, while the
                 \* first one is being called (NoRun when there is none)
  script         \* history: the calls made on this extractor (kept when
                 \* there is a second one)

vars == <<cur_file, cur_elem_id, elem_stack, parent_stack, backend, pc, ctl,
          result, nvalues, op, calls, lastId, allocated, tree, cnt, failed,
          core, rare, seen, db, other, script>>

\* no dump_to_db yet
NoDb == [pc |-> "none"]
\* no second extractor
NoRun == [run |-> 0]
\* the script after a call of `name`
Scripted(name) == IF other = NoRun THEN script ELSE Append(script, name)

None == ""

\* the engine state a method works on; res is the Result so far, id the
\* ElemId get_fresh_elem_id returned, val the ElemId last popped
Cur ==
  [cur_file |-> cur_file, cur_elem_id |-> cur_elem_id,
   elem_stack |-> elem_stack, parent_stack |-> parent_stack,
   backend |-> backend, res |-> Ok, id |-> 0, val |-> 0, calls |-> <<>>,
   allocated |-> allocated]

\* a variant of Failed under which an error does not stop the method
NeverFailed(e) == FALSE

\* the `?` operator: an error (or a panic) ends the method
Failed(e) == e.res # Ok

\* the backend method serialize_i8 .. serialize_u64 call
IntMethod(elem_type) ==
  CASE elem_type = "I8" -> "add_i8" [] elem_type = "I16" -> "add_i16"
    [] elem_type = "I32" -> "add_i32" [] elem_type = "I64" -> "add_i64"
    [] elem_type = "U8" -> "add_u8" [] elem_type = "U16" -> "add_u16"
    [] elem_type = "U32" -> "add_u32" [] elem_type = "U64" -> "add_u64"

\* one backend call: r is what the backend returned.  The engine names the
\* method at each call: add_elem and add_root_elem are in every impl block,
\* and no impl block here has a narrow method, so those calls run the
\* trait's forwarding default
Called(e, call, r) ==
  [e EXCEPT !.backend = r.b, !.res = r.res,
            !.calls = Append(@, [call |-> call, res |-> r.res])]

Call_add_elem(e, elem, elem_type) ==
  IF Failed(e) THEN e
  ELSE Called(e, <<"add_elem", elem, elem_type>>,
              add_elem(e.backend, elem, elem_type))

Call_add_root_elem(e, file, elem) ==
  IF Failed(e) THEN e
  ELSE Called(e, <<"add_root_elem", file, elem>>,
              add_root_elem(e.backend, file, elem))

Call_add_bool(e, elem, value) ==
  IF Failed(e) THEN e
  ELSE Called(e, <<"add_bool", elem, value>>,
              Resolved(e.backend, "add_bool",
                       add_bool(e.backend, elem, value)))

\* add_i8 .. add_u64, by the element type of the width
Call_add_int(e, elem_type, elem, value) ==
  IF Failed(e) THEN e
  ELSE Called(e, <<"add_int", elem_type, elem, value>>,
              CASE elem_type = "I8" -> add_i8(e.backend, elem, value)
                [] elem_type = "I16" -> add_i16(e.backend, elem, value)
                [] elem_type = "I32" -> add_i32(e.backend, elem, value)
                [] elem_type = "I64" ->
                     Resolved(e.backend, "add_i64",
                              add_i64(e.backend, elem, value))
                [] elem_type = "U8" -> add_u8(e.backend, elem, value)
                [] elem_type = "U16" -> add_u16(e.backend, elem, value)
                [] elem_type = "U32" -> add_u32(e.backend, elem, value)
                [] elem_type = "U64" ->
                     Resolved(e.backend, "add_u64",
                              add_u64(e.backend, elem, value)))

Call_add_f32(e, elem, value) ==
  IF Failed(e) THEN e
  ELSE Called(e, <<"add_f32", elem>>, add_f32(e.backend, elem, value))

Call_add_f64(e, elem, value) ==
  IF Failed(e) THEN e
  ELSE Called(e, <<"add_f64", elem>>, Resolved(e.backend, "add_f64",
                       add_f64(e.backend, elem, value)))

Call_add_bytes(e, elem, value) ==
  IF Failed(e) THEN e
  ELSE Called(e, <<"add_bytes", elem>>, Resolved(e.backend, "add_bytes",
                       add_bytes(e.backend, elem, value)))

Call_add_char(e, elem, value) ==
  IF Failed(e) THEN e
  ELSE Called(e, <<"add_char", elem, value>>,
              add_char(e.backend, elem, value))

Call_add_str(e, elem, value) ==
  IF Failed(e) THEN e
  ELSE Called(e, <<"add_str", elem, value>>,
              Resolved(e.backend, "add_str",
                       add_str(e.backend, elem, value)))

Call_add_map_entry(e, elem, key, value) ==
  IF Failed(e) THEN e
  ELSE Called(e, <<"add_map_entry", elem, key, value>>,
              Resolved(e.backend, "add_map_entry",
                       add_map_entry(e.backend, elem, key, value)))

Call_add_struct_type(e, elem, struct_name) ==
  IF Failed(e) THEN e
  ELSE Called(e, <<"add_struct_type", elem, struct_name>>,
              Resolved(e.backend, "add_struct_type",
                       add_struct_type(e.backend, elem, struct_name)))

Call_add_struct_entry(e, elem, key, value) ==
  IF Failed(e) THEN e
  ELSE Called(e, <<"add_struct_entry", elem, key, value>>,
              Resolved(e.backend, "add_struct_entry",
                       add_struct_entry(e.backend, elem, key, value)))

Call_add_seq_entry(e, elem, pos, value) ==
  IF Failed(e) THEN e
  ELSE Called(e, <<"add_seq_entry", elem, pos, value>>,
              Resolved(e.backend, "add_seq_entry",
                       add_seq_entry(e.backend, elem, pos, value)))

Call_add_variant_type(e, elem, type_name, variant_name) ==
  IF Failed(e) THEN e
  ELSE Called(e, <<"add_variant_type", elem, type_name, variant_name>>,
              Resolved(e.backend, "add_variant_type",
                       add_variant_type(e.backend, elem, type_name, variant_name)))

Call_add_tuple_entry(e, elem, pos, value) ==
  IF Failed(e) THEN e
  ELSE Called(e, <<"add_tuple_entry", elem, pos, value>>,
              Resolved(e.backend, "add_tuple_entry",
                       add_tuple_entry(e.backend, elem, pos, value)))

\* self.elem_stack.push(id)
push_elem(e, id) ==
  IF Failed(e) THEN e ELSE [e EXCEPT !.elem_stack = Append(@, id)]

\* self.elem_stack.pop().unwrap(): the popped id is left in val
pop_elem(e) ==
  IF Failed(e) THEN e
  ELSE IF e.elem_stack = <<>> THEN [e EXCEPT !.res = Panic]
  ELSE [e EXCEPT !.val = Last(e.elem_stack), !.elem_stack = Front(@)]

\* self.parent_stack.push((id, 0))
push_parent(e, id) ==
  IF Failed(e) THEN e ELSE [e EXCEPT !.parent_stack = Append(@, <<id, 0>>)]

\* a variant of get_fresh_elem_id that forgets to advance the counter
get_fresh_elem_id_no_increment(e0, elem_type) ==
  IF Failed(e0) THEN e0
  ELSE
    LET id == e0.cur_elem_id
        e1 == Call_add_elem(e0, id, elem_type)
        e2 == IF Failed(e1) THEN e1
              ELSE [e1 EXCEPT !.elem_stack = Append(@, id),
                              !.id = id,
                              !.allocated = Append(@, id)]
        e3 == IF e2.cur_file # None
              THEN Call_add_root_elem(e2, e2.cur_file, id)
              ELSE e2
    IN IF Failed(e3) \/ e2.cur_file = None THEN e3
       ELSE [e3 EXCEPT !.cur_file = None]

\* a variant of get_fresh_elem_id whose counter runs downwards
get_fresh_elem_id_decrement(e0, elem_type) ==
  IF Failed(e0) THEN e0
  ELSE
    LET id == e0.cur_elem_id
        e1 == Call_add_elem(e0, id, elem_type)
        e2 == IF Failed(e1) THEN e1
              ELSE [e1 EXCEPT !.elem_stack = Append(@, id),
                              !.cur_elem_id = @ - 1,
                              !.id = id,
                              !.allocated = Append(@, id)]
        e3 == IF e2.cur_file # None
              THEN Call_add_root_elem(e2, e2.cur_file, id)
              ELSE e2
    IN IF Failed(e3) \/ e2.cur_file = None THEN e3
       ELSE [e3 EXCEPT !.cur_file = None]

\* a variant of get_fresh_elem_id that counts the id before add_elem
\* accepted the element
get_fresh_elem_id_counting_first(e0, elem_type) ==
  IF Failed(e0) THEN e0
  ELSE
    LET id == e0.cur_elem_id
        e1 == Call_add_elem([e0 EXCEPT !.cur_elem_id = @ + 1], id, elem_type)
        e2 == IF Failed(e1) THEN e1
              ELSE [e1 EXCEPT !.elem_stack = Append(@, id),
                              !.id = id,
                              !.allocated = Append(@, id)]
        e3 == IF e2.cur_file # None
              THEN Call_add_root_elem(e2, e2.cur_file, id)
              ELSE e2
    IN IF Failed(e3) \/ e2.cur_file = None THEN e3
       ELSE [e3 EXCEPT !.cur_file = None]

get_fresh_elem_id(e0, elem_type) ==
  IF Failed(e0) THEN e0
  ELSE
    LET id == e0.cur_elem_id
        e1 == Call_add_elem(e0, id, elem_type)
        e2 == IF Failed(e1) THEN e1
              ELSE [e1 EXCEPT !.elem_stack = Append(@, id),
                              !.cur_elem_id = @ + 1,
                              !.id = id,
                              !.allocated = Append(@, id)]
        e3 == IF e2.cur_file # None
              THEN Call_add_root_elem(e2, e2.cur_file, id)
              ELSE e2
    IN IF Failed(e3) \/ e2.cur_file = None THEN e3
       ELSE [e3 EXCEPT !.cur_file = None]

\* a variant of end_parent that leaves the pair on the stack
end_parent_without_pop(e) ==
  IF Failed(e) THEN e
  ELSE IF e.parent_stack = <<>> THEN [e EXCEPT !.res = Panic]
  ELSE [e EXCEPT !.val = Last(e.parent_stack)[1]]

\* self.parent_stack.pop().unwrap()
end_parent(e) ==
  IF Failed(e) THEN e
  ELSE IF e.parent_stack = <<>> THEN [e EXCEPT !.res = Panic]
  ELSE [e EXCEPT !.val = Last(e.parent_stack)[1], !.parent_stack = Front(@)]

(* ------------------------- the driver's frames ------------------------- *)
ContainerKinds == {"Seq", "Tuple", "TupleStruct", "TupleVariant", "Map",
                   "Struct", "StructVariant"}
SeqLikeKinds == {"Seq", "Tuple", "TupleStruct", "TupleVariant"}
StructKinds == {"Struct", "StructVariant"}
WrapperKinds == {"NewtypeStruct", "NewtypeVariant"}

\* k: a container kind (the container is open), a wrapper kind (the wrapper
\* waits for its value), or "element" / "field" / "key" / "value" (an entry
\* method waits for its value).  id: the container's ElemId as the driver
\* knows it.  kid: for an open map, the ElemId of a key whose value is
\* still to come (0: none)
Frame(k, id, et, name, variant, key) ==
  [k |-> k, id |-> id, et |-> et, name |-> name, variant |-> variant,
   key |-> key, kid |-> 0]

Top(s) == s[Len(s)]

\* the ElemType each entry method hands to serialize_tuple_or_seq_element
EntryElemType(k) == k

Started ==
  (cur_elem_id - 1) + Cardinality({i \in DOMAIN ctl : ctl[i].k \in WrapperKinds})
Depth ==
  Cardinality({i \in DOMAIN ctl : ctl[i].k \in ContainerKinds \cup WrapperKinds})

\* the caller's choice of what to do next: any of the profile's common
\* operations, and up to MaxRare uses of any other (a value of another kind,
\* a set_file)
Pick(kind) ==
  /\ core' = core
  /\ IF kind \in core THEN rare' = rare
     ELSE rare < MaxRare /\ rare' = rare + 1

SameProfile == UNCHANGED <<core, rare>>

CanStartValue(kind) == pc = "call" /\ Started < MaxElems /\ Pick(kind)
CanStartContainer(kind) == CanStartValue(kind) /\ Depth < MaxDepth
CanStartWrapper(kind) ==
  /\ pc = "call" /\ Started + 2 <= MaxElems /\ Depth < MaxDepth
  /\ Pick(kind)

Bump(c, f) == [c EXCEPT ![f] = @ + 1]
AddKid(t, c, kid) == [t EXCEPT ![c].kids = Append(@, kid)]
NewNode(t, id, k, kids) == Insert(t, id, [k |-> k, kids |-> kids])

\* what a step leaves behind: the engine state e it computed; when e is Ok
\* the driver goes on at okpc with frames okctl, an error is returned to
\* the caller of the top-level serialize (every frame returns it with `?`),
\* a panic ends the thread
Step(e, name, okpc, okctl, okLast, okTree, okCnt) ==
  /\ cur_file' = e.cur_file
  /\ cur_elem_id' = e.cur_elem_id
  /\ elem_stack' = e.elem_stack
  /\ parent_stack' = e.parent_stack
  /\ backend' = e.backend
  /\ calls' = e.calls
  /\ allocated' = e.allocated
  /\ op' = name
  /\ nvalues' = nvalues
  /\ seen' = seen /\ db' = db /\ other' = other
  /\ script' = Scripted(name)
  /\ IF e.res = Ok
     THEN /\ pc' = okpc /\ ctl' = okctl /\ result' = result
          /\ lastId' = okLast /\ tree' = okTree /\ cnt' = okCnt
          /\ failed' = failed
     ELSE /\ pc' = IF e.res = Panic THEN "panic" ELSE "idle"
          /\ ctl' = <<>>
          /\ result' = e.res
          /\ lastId' = 0 /\ tree' = tree /\ cnt' = cnt
          /\ failed' = TRUE

\* a step of the driver alone: no engine state changes
Drive(name, newpc, newctl) ==
  /\ pc' = newpc /\ ctl' = newctl /\ op' = name /\ calls' = <<>>
  /\ script' = Scripted(name)
  /\ UNCHANGED <<cur_file, cur_elem_id, elem_stack, parent_stack, backend,
                 result, nvalues, lastId, allocated, tree, cnt, failed, seen,
                 db, other>>

Leaf(e, name, kind) == Step(e, name, "ret", ctl, e.id, tree, Bump(cnt, kind))

Open(e, name, k, id, kind) ==
  Step(e, name, "open", Append(ctl, Frame(k, id, "", "", "", "")), lastId,
       NewNode(tree, id, k, <<>>), Bump(cnt, kind))

(* ------------------------------ Init ----------------------------------- *)
\* the kinds a run of the full protocol uses freely
CommonKinds == {"serialize_str", "serialize_seq", "serialize_map"}

\* DatalogExtractor::new(backend) on a fresh backend
Fresh(kinds, common) ==
  /\ backend \in {DefaultBackend(k) : k \in kinds}
  /\ cur_file = None
  /\ cur_elem_id = 1
  /\ elem_stack = <<>>
  /\ parent_stack = <<>>
  /\ pc = "idle"
  /\ ctl = <<>>
  /\ result = <<"none">>
  /\ nvalues = 0
  /\ op = "new"
  /\ calls = <<>>
  /\ lastId = 0
  /\ allocated = <<>>
  /\ tree = EmptyMap
  /\ cnt = [bool |-> 0, number |-> 0, string |-> 0, map |-> 0, seq |-> 0,
            other |-> 0, entries |-> 0, elems |-> 0]
  /\ failed = FALSE
  /\ core = common
  /\ rare = 0
  /\ seen = <<>>
  /\ script = <<>>

\* one extractor, nothing persisted
New(kinds, common) == Fresh(kinds, common) /\ db = NoDb /\ other = NoRun

Init == New(BackendKinds, CommonKinds)

(* ------------------------ the caller of the engine --------------------- *)
\* set_file(file) with a file name out of `files`
set_file_among(files) ==
  /\ pc = "idle" /\ nvalues < MaxValues /\ Started < MaxElems
  /\ Pick("set_file")
  /\ \E file \in files :
       /\ cur_file' = file
       /\ op' = "set_file" /\ calls' = <<>>
       /\ script' = Scripted(<<"set_file", file>>)
       /\ UNCHANGED <<cur_elem_id, elem_stack, parent_stack, backend, pc, ctl,
                      result, nvalues, lastId, allocated, tree, cnt, failed,
                      seen, db, other>>

set_file == set_file_among(Files)

\* value.serialize(&mut extractor) is called
Serialize ==
  /\ pc = "idle" /\ nvalues < MaxValues /\ Started < MaxElems
  /\ pc' = "call" /\ ctl' = <<>> /\ result' = <<"none">>
  /\ nvalues' = nvalues + 1
  /\ op' = "serialize" /\ calls' = <<>>
  /\ script' = Scripted("serialize")
  /\ UNCHANGED <<cur_file, cur_elem_id, elem_stack, parent_stack, backend,
                 lastId, allocated, tree, cnt, failed, core, rare, seen, db,
                 other>>

\* ... and returns Ok(())
Return ==
  /\ pc = "ret" /\ ctl = <<>>
  /\ pc' = "idle" /\ result' = Ok
  /\ op' = "return" /\ calls' = <<>>
  /\ script' = Scripted("return")
  /\ UNCHANGED <<cur_file, cur_elem_id, elem_stack, parent_stack, backend,
                 ctl, nvalues, lastId, allocated, tree, cnt, failed, core,
                 rare, seen, db, other>>

(* ------------------------------ scalars -------------------------------- *)
serialize_bool ==
  /\ CanStartValue("serialize_bool")
  /\ \E value \in BoolVals :
       LET e1 == get_fresh_elem_id(Cur, "Bool")
       IN Leaf(Call_add_bool(e1, e1.id, value), "serialize_bool", "bool")

serialize_int(name, elem_type, values) ==
  /\ CanStartValue(name)
  /\ \E value \in values :
       LET e1 == get_fresh_elem_id(Cur, elem_type)
       IN Leaf(Call_add_int(e1, elem_type, e1.id, value), name, "number")

serialize_i8 == serialize_int("serialize_i8", "I8", SignedVals)
serialize_i16 == serialize_int("serialize_i16", "I16", SignedVals)
serialize_i32 == serialize_int("serialize_i32", "I32", SignedVals)
serialize_i64 == serialize_int("serialize_i64", "I64", I64Vals)
serialize_u8 == serialize_int("serialize_u8", "U8", UnsignedVals)
serialize_u16 == serialize_int("serialize_u16", "U16", UnsignedVals)
serialize_u32 == serialize_int("serialize_u32", "U32", UnsignedVals)
serialize_u64 == serialize_int("serialize_u64", "U64", U64Vals)

serialize_f32 ==
  /\ CanStartValue("serialize_f32")
  /\ LET e1 == get_fresh_elem_id(Cur, "F32")
     IN Leaf(Call_add_f32(e1, e1.id, "f"), "serialize_f32", "other")

serialize_f64 ==
  /\ CanStartValue("serialize_f64")
  /\ LET e1 == get_fresh_elem_id(Cur, "F64")
     IN Leaf(Call_add_f64(e1, e1.id, "f"), "serialize_f64", "other")

serialize_char ==
  /\ CanStartValue("serialize_char")
  /\ \E value \in CharVals :
       LET e1 == get_fresh_elem_id(Cur, "Char")
       IN Leaf(Call_add_char(e1, e1.id, value), "serialize_char", "string")

serialize_str ==
  /\ CanStartValue("serialize_str")
  /\ \E value \in StrVals :
       LET e1 == get_fresh_elem_id(Cur, "Str")
       IN Leaf(Call_add_str(e1, e1.id, value), "serialize_str", "string")

serialize_bytes ==
  /\ CanStartValue("serialize_bytes")
  /\ LET e1 == get_fresh_elem_id(Cur, "Bytes")
     IN Leaf(Call_add_bytes(e1, e1.id, "b"), "serialize_bytes", "other")

(* ------------------------------- units --------------------------------- *)
serialize_unit ==
  /\ CanStartValue("serialize_unit")
  /\ Leaf(get_fresh_elem_id(Cur, "Unit"), "serialize_unit", "other")

serialize_unit_struct ==
  /\ CanStartValue("serialize_unit_struct")
  /\ \E name \in StructNames :
       LET e1 == get_fresh_elem_id(Cur, "UnitStruct")
       IN Leaf(Call_add_struct_type(e1, e1.id, name),
               "serialize_unit_struct", "other")

\* a variant of unit_variant that files the variant's name as the string
\* of the element
unit_variant_with_string(e0, name, variant) ==
  LET e1 == get_fresh_elem_id(e0, "UnitVariant")
      e2 == push_elem(e1, e1.id)
  IN Call_add_str(Call_add_variant_type(e2, e1.id, name, variant),
                  e1.id, variant)

\* the body of serialize_unit_variant (serialize_none calls it too)
unit_variant(e0, name, variant) ==
  LET e1 == get_fresh_elem_id(e0, "UnitVariant")
      e2 == push_elem(e1, e1.id)
  IN Call_add_variant_type(e2, e1.id, name, variant)

serialize_unit_variant ==
  /\ CanStartValue("serialize_unit_variant")
  /\ \E name \in StructNames, variant \in VariantNames :
       Leaf(unit_variant(Cur, name, variant), "serialize_unit_variant",
            "other")

serialize_none ==
  /\ CanStartValue("serialize_none")
  /\ Leaf(unit_variant(Cur, "Option", "None"), "serialize_none", "other")

(* ----------------------------- wrappers -------------------------------- *)
\* serialize_newtype_struct up to its value.serialize(..) call
enter_newtype_struct ==
  /\ CanStartWrapper("serialize_newtype_struct")
  /\ \E name \in StructNames :
       Drive("enter_newtype_struct", "call",
             Append(ctl, Frame("NewtypeStruct", 0, "", name, "", "")))

\* serialize_newtype_variant up to its value.serialize(..) call
enter_newtype_variant ==
  /\ CanStartWrapper("serialize_newtype_variant")
  /\ \E name \in StructNames, variant \in FooVariants :
       Drive("enter_newtype_variant", "call",
             Append(ctl, Frame("NewtypeVariant", 0, "", name, variant, "")))

\* serialize_some: serialize_newtype_variant("Option", 1, "Some", value)
serialize_some ==
  /\ CanStartWrapper("serialize_some")
  /\ Drive("serialize_some", "call",
           Append(ctl, Frame("NewtypeVariant", 0, "", "Option", "Some", "")))

\* serialize_newtype_struct after its value returned Ok
serialize_newtype_struct ==
  /\ SameProfile
  /\ pc = "ret" /\ ctl # <<>> /\ Top(ctl).k = "NewtypeStruct"
  /\ LET e1 == pop_elem(Cur)
         child_id == e1.val
         e2 == get_fresh_elem_id(e1, "NewtypeStruct")
         e3 == Call_add_struct_type(e2, e2.id, Top(ctl).name)
         e4 == Call_add_tuple_entry(e3, e2.id, 0, child_id)
     IN Step(e4, "serialize_newtype_struct", "ret", Front(ctl), e2.id,
             NewNode(tree, e2.id, "NewtypeStruct", <<lastId>>),
             Bump(cnt, "other"))

\* serialize_newtype_variant after its value returned Ok
serialize_newtype_variant ==
  /\ SameProfile
  /\ pc = "ret" /\ ctl # <<>> /\ Top(ctl).k = "NewtypeVariant"
  /\ LET e1 == pop_elem(Cur)
         child_id == e1.val
         e2 == get_fresh_elem_id(e1, "NewtypeVariant")
         e3 == Call_add_variant_type(e2, e2.id, Top(ctl).name,
                                     Top(ctl).variant)
         e4 == Call_add_tuple_entry(e3, e2.id, 0, child_id)
     IN Step(e4, "serialize_newtype_variant", "ret", Front(ctl), e2.id,
             NewNode(tree, e2.id, "NewtypeVariant", <<lastId>>),
             Bump(cnt, "other"))

(* ---------------------------- containers ------------------------------- *)
serialize_seq ==
  /\ CanStartContainer("serialize_seq")
  /\ LET e1 == get_fresh_elem_id(Cur, "Seq")
     IN Open(push_parent(e1, e1.id), "serialize_seq", "Seq", e1.id, "seq")

serialize_tuple ==
  /\ CanStartContainer("serialize_tuple")
  /\ LET e1 == get_fresh_elem_id(Cur, "Tuple")
     IN Open(push_parent(e1, e1.id), "serialize_tuple", "Tuple", e1.id,
             "other")

serialize_tuple_struct ==
  /\ CanStartContainer("serialize_tuple_struct")
  /\ \E name \in StructNames :
       LET e1 == get_fresh_elem_id(Cur, "TupleStruct")
           e2 == push_parent(e1, e1.id)
       IN Open(Call_add_struct_type(e2, e1.id, name),
               "serialize_tuple_struct", "TupleStruct", e1.id, "other")

serialize_tuple_variant ==
  /\ CanStartContainer("serialize_tuple_variant")
  /\ \E name \in StructNames, variant \in VariantNames :
       LET e1 == get_fresh_elem_id(Cur, "TupleVariant")
           e2 == push_parent(e1, e1.id)
       IN Open(Call_add_variant_type(e2, e1.id, name, variant),
               "serialize_tuple_variant", "TupleVariant", e1.id, "other")

serialize_map ==
  /\ CanStartContainer("serialize_map")
  /\ LET e1 == get_fresh_elem_id(Cur, "Map")
     IN Open(push_parent(e1, e1.id), "serialize_map", "Map", e1.id, "map")

serialize_struct ==
  /\ CanStartContainer("serialize_struct")
  /\ \E name \in StructNames :
       LET e1 == get_fresh_elem_id(Cur, "Struct")
           e2 == push_parent(e1, e1.id)
       IN Open(Call_add_struct_type(e2, e1.id, name), "serialize_struct",
               "Struct", e1.id, "other")

serialize_struct_variant ==
  /\ CanStartContainer("serialize_struct_variant")
  /\ \E name \in StructNames, variant \in VariantNames :
       LET e1 == get_fresh_elem_id(Cur, "StructVariant")
           e2 == push_parent(e1, e1.id)
       IN Open(Call_add_variant_type(e2, e1.id, name, variant),
               "serialize_struct_variant", "StructVariant", e1.id, "other")

(* ------------------------------ entries -------------------------------- *)
OpenTop(kinds) ==
  pc = "open" /\ ctl # <<>> /\ Top(ctl).k \in kinds /\ Started < MaxElems

\* SerializeSeq / SerializeTuple::serialize_element and SerializeTupleStruct
\* / SerializeTupleVariant::serialize_field, up to value.serialize(..)
enter_element ==
  /\ SameProfile
  /\ OpenTop(SeqLikeKinds)
  /\ Drive("enter_element", "call",
           Append(ctl, Frame("element", Top(ctl).id,
                             EntryElemType(Top(ctl).k), "", "", "")))

\* *pos += 1 on the top of the parent stack
bump_pos(e) ==
  IF Failed(e) THEN e
  ELSE [e EXCEPT !.parent_stack =
          [@ EXCEPT ![Len(@)] = <<@[1], @[2] + 1>>]]

\* self.parent_stack.last().unwrap(): a panic when no container is open
last_parent(e) ==
  IF Failed(e) THEN e
  ELSE IF e.parent_stack = <<>> THEN [e EXCEPT !.res = Panic] ELSE e

\* a variant of ParentId that takes the outermost open container
ParentId_outermost(e) ==
  IF e.parent_stack = <<>> THEN 0 ELSE e.parent_stack[1][1]

ParentId(e) == IF e.parent_stack = <<>> THEN 0 ELSE Last(e.parent_stack)[1]
ParentPos(e) == IF e.parent_stack = <<>> THEN 0 ELSE Last(e.parent_stack)[2]

\* serialize_tuple_or_seq_element after value.serialize(..) returned Ok
serialize_tuple_or_seq_element ==
  /\ SameProfile
  /\ pc = "ret" /\ ctl # <<>> /\ Top(ctl).k = "element"
  /\ LET e1 == pop_elem(Cur)
         child_id == e1.val
         e2 == last_parent(e1)
         e3 == IF Top(ctl).et = "Seq"
               THEN Call_add_seq_entry(e2, ParentId(e2), ParentPos(e2),
                                       child_id)
               ELSE Call_add_tuple_entry(e2, ParentId(e2), ParentPos(e2),
                                         child_id)
     IN Step(bump_pos(e3), "serialize_tuple_or_seq_element", "open",
             Front(ctl), lastId, AddKid(tree, Top(ctl).id, lastId),
             Bump(cnt, "elems"))

\* SerializeStruct / SerializeStructVariant::serialize_field, up to
\* value.serialize(..)
enter_field ==
  /\ SameProfile
  /\ OpenTop(StructKinds)
  /\ \E key \in FieldNames :
       Drive("enter_field", "call",
             Append(ctl, Frame("field", Top(ctl).id, "", "", "", key)))

\* serialize_struct_element after value.serialize(..) returned Ok
serialize_struct_element ==
  /\ SameProfile
  /\ pc = "ret" /\ ctl # <<>> /\ Top(ctl).k = "field"
  /\ LET e1 == last_parent(Cur)
         e2 == pop_elem(e1)
         val_id == e2.val
     IN Step(Call_add_struct_entry(e2, ParentId(e2), Top(ctl).key, val_id),
             "serialize_struct_element", "open", Front(ctl), lastId,
             AddKid(tree, Top(ctl).id, lastId), cnt)

\* SerializeMap::serialize_key, up to key.serialize(..)
enter_key ==
  /\ SameProfile
  /\ OpenTop({"Map"}) /\ Top(ctl).kid = 0 /\ Started + 2 <= MaxElems
  /\ Drive("enter_key", "call",
           Append(ctl, Frame("key", Top(ctl).id, "", "", "", "")))

\* SerializeMap::serialize_key after key.serialize(..) returned Ok
serialize_key ==
  /\ SameProfile
  /\ pc = "ret" /\ ctl # <<>> /\ Top(ctl).k = "key"
  /\ Step(Cur, "serialize_key", "open",
          [Front(ctl) EXCEPT ![Len(ctl) - 1].kid = lastId], lastId,
          AddKid(tree, Top(ctl).id, lastId), cnt)

\* SerializeMap::serialize_value, up to value.serialize(..)
enter_value ==
  /\ SameProfile
  /\ OpenTop({"Map"}) /\ Top(ctl).kid # 0
  /\ Drive("enter_value", "call",
           Append(ctl, Frame("value", Top(ctl).id, "", "", "", "")))

\* SerializeMap::serialize_value after value.serialize(..) returned Ok
serialize_value ==
  /\ SameProfile
  /\ pc = "ret" /\ ctl # <<>> /\ Top(ctl).k = "value"
  /\ LET e1 == last_parent(Cur)
         e2 == pop_elem(e1)
         val_id == e2.val
         e3 == pop_elem(e2)
         key_id == e3.val
     IN Step(Call_add_map_entry(e3, ParentId(e3), key_id, val_id),
             "serialize_value", "open",
             [Front(ctl) EXCEPT ![Len(ctl) - 1].kid = 0], lastId,
             AddKid(tree, Top(ctl).id, lastId), Bump(cnt, "entries"))

\* end() of the seven compound serializers: end_parent
end ==
  /\ SameProfile
  /\ pc = "open" /\ ctl # <<>> /\ Top(ctl).k \in ContainerKinds
  /\ Top(ctl).kid = 0
  /\ Step(end_parent(Cur), "end", "ret", Front(ctl), Top(ctl).id, tree, cnt)

(* ------------------------------- Next ---------------------------------- *)
Next ==
  \/ set_file \/ Serialize \/ Return
  \/ serialize_bool
  \/ serialize_i8 \/ serialize_i16 \/ serialize_i32 \/ serialize_i64
  \/ serialize_u8 \/ serialize_u16 \/ serialize_u32 \/ serialize_u64
  \/ serialize_f32 \/ serialize_f64
  \/ serialize_char \/ serialize_str \/ serialize_bytes
  \/ serialize_none \/ serialize_some
  \/ serialize_unit \/ serialize_unit_struct \/ serialize_unit_variant
  \/ enter_newtype_struct \/ serialize_newtype_struct
  \/ enter_newtype_variant \/ serialize_newtype_variant
  \/ serialize_seq \/ serialize_tuple \/ serialize_tuple_struct
  \/ serialize_tuple_variant \/ serialize_map \/ serialize_struct
  \/ serialize_struct_variant
  \/ enter_element \/ serialize_tuple_or_seq_element
  \/ enter_field \/ serialize_struct_element
  \/ enter_key \/ serialize_key \/ enter_value \/ serialize_value
  \/ end

Spec == Init /\ [][Next]_vars

(***************************************************************************)
(* Reading the fact tables.                                                *)
(***************************************************************************)
Values(m) == {m[k] : k \in DOMAIN m}
Subjects(m) == {k[1] : k \in DOMAIN m}
Rows(m) == Cardinality(DOMAIN m)
TypeRows(b, id) == {i \in DOMAIN b.type_table : b.type_table[i][1] = id}
\* the rows of the type relation filed under the tag `name`
Typed(b, name) ==
  {i \in DOMAIN b.type_table : b.type_table[i][2] = b.symbol_table[name]}

\* the ElemIds in the rows of every relation other than type, as subject,
\* key or value (a string-keyed backend's map keys are symbols)
RelationElems(b) ==
  DOMAIN b.bool_table \cup DOMAIN b.number_table \cup DOMAIN b.string_table
  \cup Subjects(b.map_table) \cup Values(b.map_table)
  \cup (IF b.kind = "elem" THEN {k[2] : k \in DOMAIN b.map_table} ELSE {})
  \cup Subjects(b.struct_table) \cup Values(b.struct_table)
  \cup Subjects(b.seq_table) \cup Values(b.seq_table)
  \cup Subjects(b.tuple_table) \cup Values(b.tuple_table)
  \cup DOMAIN b.struct_type_table \cup DOMAIN b.variant_type_table
  \cup Values(b.root_elem_table)

(***************************************************************************)
(* C1: in every reachable state, every ElemId that appears in a relation   *)
(* other than type (bool, number, string, map, struct, seq, tuple,         *)
(* structType, variantType, rootElem) appears in exactly one type row.     *)
(***************************************************************************)
C1_TypedExactlyOnce ==
  \A id \in RelationElems(backend) : Cardinality(TypeRows(backend, id)) = 1

\* a root element, a map entry and a string are on file
C1_Witness ==
  /\ DOMAIN backend.root_elem_table # {}
  /\ DOMAIN backend.map_table # {}
  /\ DOMAIN backend.string_table # {}

(***************************************************************************)
(* C2: across the serialize calls made on one extractor, the ElemIds of    *)
(* the successfully allocated elements start at 1, strictly increase in    *)
(* allocation order, and none is given to two elements.                    *)
(***************************************************************************)
C2_FreshIds ==
  /\ allocated # <<>> => allocated[1] = 1
  /\ \A i, j \in DOMAIN allocated : i < j => allocated[i] < allocated[j]

\* three elements allocated over two top-level values
C2_Witness == Len(allocated) >= 3 /\ nvalues = 2 /\ ~failed

(***************************************************************************)
(* The input as the driver serialized it: tree[c].kids are the ElemIds of  *)
(* the direct children of the composite c, in serialization order.         *)
(***************************************************************************)
RECURSIVE Desc(_, _)
Desc(c, fuel) ==
  IF fuel = 0 \/ c \notin DOMAIN tree THEN {}
  ELSE LET kids == Range(tree[c].kids)
       IN kids \cup UNION {Desc(k, fuel - 1) : k \in kids}

\* the ElemIds of the descendants of c, at any depth
Descendants(c) == Desc(c, Cardinality(DOMAIN tree))

(***************************************************************************)
(* C3: a container (map, sequence, tuple, tuple struct, tuple variant,     *)
(* struct, struct variant) is allocated before its children are visited:   *)
(* its ElemId is strictly lower than that of every descendant, at any      *)
(* depth.                                                                  *)
(***************************************************************************)
C3_ContainerBelowDescendants ==
  \A c \in DOMAIN tree :
    tree[c].k \in ContainerKinds => \A d \in Descendants(c) : c < d

\* a container holding a container that holds a child
C3_Witness ==
  \E c, d \in DOMAIN tree :
    /\ tree[c].k \in ContainerKinds /\ tree[d].k \in ContainerKinds
    /\ d \in Range(tree[c].kids) /\ tree[d].kids # <<>>

C5_MapEntryIds ==
  [][(pc = "ret" /\ ctl # <<>> /\ Top(ctl).k = "value") =>
       /\ Len(calls') = 1
       /\ calls'[1].call = <<"add_map_entry", Top(ctl).id,
                             ctl[Len(ctl) - 1].kid, lastId>>]_vars

(***************************************************************************)
(* C6: for every sequence, tuple, tuple struct and tuple variant, the k-th *)
(* direct child (from 0, in serialization order) is recorded at position   *)
(* k; the positions of one parent are 0-based, contiguous and unique,      *)
(* whatever is nested inside earlier children or encloses the parent.      *)
(***************************************************************************)
EntryTable(b, k) == IF k = "Seq" THEN b.seq_table ELSE b.tuple_table
Positions(t, c) == {key[2] : key \in {x \in DOMAIN t : x[1] = c}}

C6_ChildAtPosition ==
  \A c \in DOMAIN tree :
    tree[c].k \in SeqLikeKinds =>
      LET t == EntryTable(backend, tree[c].k)
          kids == tree[c].kids
      IN /\ Positions(t, c) = 0 .. (Len(kids) - 1)
         /\ \A k \in 0 .. (Len(kids) - 1) : t[<<c, k>>] = kids[k + 1]

\* the positions alone: 0-based, contiguous, one row each
C6_PositionsContiguous ==
  \A c \in DOMAIN tree :
    tree[c].k \in SeqLikeKinds =>
      Positions(EntryTable(backend, tree[c].k), c)
        = 0 .. (Len(tree[c].kids) - 1)

(***************************************************************************)
(* C7: for an input serialized successfully, with either in-memory         *)
(* backend, the number of type facts equals the number of bool facts plus  *)
(* number facts plus string facts plus the number of container and unit    *)
(* elements of the input.                                                  *)
(***************************************************************************)
\* the nodes of the input that carry no primitive value
CompositeAndUnitNodes == cnt.map + cnt.seq + cnt.other
ValueFacts(b) == Rows(b.bool_table) + Rows(b.number_table) + Rows(b.string_table)
Succeeded == pc = "idle" /\ nvalues > 0 /\ ~failed

C7_TypeCount ==
  Succeeded =>
    Len(backend.type_table) = ValueFacts(backend) + CompositeAndUnitNodes

\* C7 as amended: the equality holds with the element-keyed backend; the
\* string-keyed backend takes each map key's string fact out of the string
\* relation, so there the map rows are counted as well
C7_TypeCountByBackend ==
  Succeeded =>
    Len(backend.type_table)
      = ValueFacts(backend) + CompositeAndUnitNodes
        + (IF backend.kind = "string" THEN Rows(backend.map_table) ELSE 0)

\* a map entry filed by the string-keyed backend, beside a string value
C7_Witness ==
  /\ Succeeded /\ backend.kind = "string"
  /\ Rows(backend.map_table) >= 1 /\ Rows(backend.string_table) >= 1

(***************************************************************************)
(* JSON documents (tests/test_values.rs): a serde_json Value serialized    *)
(* into a DatalogExtractor over backend::vector::Backend.  Null is a unit, *)
(* a Number an u64, an i64 or an f64, an Array a sequence, an Object a map *)
(* whose keys are strings.                                                 *)
(***************************************************************************)
JsonKinds == {"serialize_unit", "serialize_bool", "serialize_i64",
              "serialize_u64", "serialize_f64", "serialize_str",
              "serialize_seq", "serialize_map"}

\* the value asked for is the key of an object
InKey == ctl # <<>> /\ Top(ctl).k = "key"

Value_Null == ~InKey /\ serialize_unit
Value_Bool == ~InKey /\ serialize_bool
Value_Number_PosInt == ~InKey /\ serialize_u64
Value_Number_NegInt == ~InKey /\ serialize_i64
Value_Number_Float == ~InKey /\ serialize_f64
Value_String == serialize_str
Value_Array == ~InKey /\ serialize_seq
Value_Object == ~InKey /\ serialize_map

InitJson == New({"elem"}, JsonKinds)

NextJson ==
  \/ Serialize \/ Return
  \/ Value_Null \/ Value_Bool
  \/ Value_Number_PosInt \/ Value_Number_NegInt \/ Value_Number_Float
  \/ Value_String \/ Value_Array \/ Value_Object
  \/ enter_element \/ serialize_tuple_or_seq_element
  \/ enter_key \/ serialize_key \/ enter_value \/ serialize_value
  \/ end

SpecJson == InitJson /\ [][NextJson]_vars

(***************************************************************************)
(* C8: for an input built from null, booleans, numbers, strings, arrays    *)
(* and string-keyed objects, serialized successfully into the element-     *)
(* keyed backend: the elements typed Map are the objects, those typed Seq  *)
(* the arrays, the map rows the object fields, the seq rows the array      *)
(* elements, and bool, number and string have one row per bool, number     *)
(* and string node (an object key is a string node).                       *)
(***************************************************************************)
C8_JsonCounts ==
  Succeeded =>
    /\ Cardinality(Typed(backend, MAP_NAME)) = cnt.map
    /\ Cardinality(Typed(backend, SEQ_NAME)) = cnt.seq
    /\ Rows(backend.map_table) = cnt.entries
    /\ Rows(backend.seq_table) = cnt.elems
    /\ Rows(backend.bool_table) = cnt.bool
    /\ Rows(backend.number_table) = cnt.number
    /\ Rows(backend.string_table) = cnt.string
    /\ Len(backend.type_table) = cnt.other + cnt.bool + cnt.number
                                   + cnt.string + cnt.seq + cnt.map

\* an object with a field whose value is an array, serialized successfully
C8_Witness ==
  /\ Succeeded /\ result = Ok
  /\ cnt.map >= 1 /\ cnt.entries >= 1 /\ cnt.seq >= 1 /\ cnt.string >= 1

(***************************************************************************)
(* C9: serializing an f32, an f64 or a byte slice, at top level or nested  *)
(* at any depth, returns UnextractableData with every backend; no row of   *)
(* any relation (type included) is committed for the value, and every      *)
(* fact committed before stays as it was.                                  *)
(***************************************************************************)
Unextractable == {"serialize_f32", "serialize_f64", "serialize_bytes"}

C9_FloatsAndBytesRejected ==
  [][(pc = "call" /\ op' \in Unextractable) =>
       /\ result' = UnextractableData
       /\ pc' = "idle" /\ ctl' = <<>>
       /\ backend' = backend]_vars

\* a float inside a sequence inside a container of the string-keyed
\* backend, rejected after the facts of its ancestors were committed
C9_Witness ==
  /\ op = "serialize_f64" /\ result = UnextractableData
  /\ Len(parent_stack) >= 2 /\ Len(backend.type_table) >= 2
  /\ backend.kind = "string"

(***************************************************************************)
(* C10: once a backend call returns an error during a serialize call, the  *)
(* engine makes no further backend call for that top-level value, returns  *)
(* that error unmodified to the caller, retries nothing, and leaves every  *)
(* fact committed before the error in place.                               *)
(***************************************************************************)
Tables == {"symbol_table", "root_elem_table", "bool_table", "number_table",
           "string_table", "map_table", "struct_type_table", "struct_table",
           "seq_table", "variant_type_table", "tuple_table"}

\* every row of b1 is a row of b2
Preserved(b1, b2) ==
  /\ Len(b1.type_table) <= Len(b2.type_table)
  /\ SubSeq(b2.type_table, 1, Len(b1.type_table)) = b1.type_table
  /\ \A t \in Tables :
       \A k \in DOMAIN b1[t] : k \in DOMAIN b2[t] /\ b2[t][k] = b1[t][k]

\* the i-th backend call of a step returned an error
ReturnedError(cs, i) == cs[i].res \notin {Ok, Panic}

C10_ErrorAborts ==
  [][/\ calls' # <<>> => (pc \in {"call", "open", "ret"}
                            /\ result = <<"none">>)
     /\ \A i \in DOMAIN calls' :
          ReturnedError(calls', i) =>
            /\ i = Len(calls')
            /\ result' = calls'[i].res
            /\ pc' = "idle" /\ ctl' = <<>>
            /\ Preserved(backend, backend')]_vars

\* add_map_entry of the string-keyed backend refused a key that is not a
\* string, after the facts of the map, the key and the value were committed
C10_Witness ==
  /\ calls # <<>> /\ Last(calls).call[1] = "add_map_entry"
  /\ Last(calls).res = UnextractableData /\ result = UnextractableData
  /\ pc = "idle" /\ Len(backend.type_table) >= 3

(***************************************************************************)
(* Enum values: the caller serializes newtype variants, options, i64       *)
(* numbers and sequences freely (the documented enum Foo, Option<T>,       *)
(* Vec<T>), into the element-keyed backend.                                *)
(***************************************************************************)
EnumKinds == {"serialize_newtype_variant", "serialize_some",
              "serialize_none", "serialize_i64", "serialize_seq"}

InitEnum == New({"elem"}, EnumKinds)

SpecEnum == InitEnum /\ [][Next]_vars

\* the backend calls of a step other than add_root_elem
EntryCalls(cs) == SelectSeq(cs, LAMBDA c : c.call[1] # "add_root_elem")

\* the calls a wrapper frame f makes for the wrapper w around child_id
WrapperCalls(f, w, child_id) ==
  << [call |-> <<"add_elem", w, f.k>>, res |-> Ok],
     [call |-> IF f.k = "NewtypeStruct"
               THEN <<"add_struct_type", w, f.name>>
               ELSE <<"add_variant_type", w, f.name, f.variant>>,
      res |-> Ok],
     [call |-> <<"add_tuple_entry", w, 0, child_id>>, res |-> Ok] >>

\* the calls serialize_none makes for the element id
NoneCalls(id) ==
  << [call |-> <<"add_elem", id, "UnitVariant">>, res |-> Ok],
     [call |-> <<"add_variant_type", id, "Option", "None">>, res |-> Ok] >>

(***************************************************************************)
(* C11: once the wrapped value of a newtype struct, a newtype variant or   *)
(* Some(x) has returned, the wrapper w issues exactly add_elem(w,          *)
(* NewtypeStruct | NewtypeVariant), then add_struct_type(w, name) or       *)
(* add_variant_type(w, name, variant) ("Option", "Some" for Some), then    *)
(* one add_tuple_entry(w, 0, child_id) with child_id the ElemId of the     *)
(* wrapped value; None issues add_elem(id, UnitVariant), then              *)
(* add_variant_type(id, "Option", "None"), and no entry fact.              *)
(***************************************************************************)
C11_WrapperCalls ==
  [][/\ (pc = "ret" /\ ctl # <<>> /\ Top(ctl).k \in WrapperKinds) =>
          calls' = WrapperCalls(Top(ctl), cur_elem_id, lastId)
     /\ (pc = "call" /\ op' = "serialize_none" /\ pc' = "ret") =>
          EntryCalls(calls') = NoneCalls(cur_elem_id)]_vars

\* the variant fact of the element id is (type_name, variant_name)
IsVariant(b, id, type_name, variant_name) ==
  /\ id \in DOMAIN b.variant_type_table
  /\ type_name \in DOMAIN b.symbol_table
  /\ variant_name \in DOMAIN b.symbol_table
  /\ b.variant_type_table[id]
       = <<b.symbol_table[type_name], b.symbol_table[variant_name]>>

\* the one value serialized by the extractor so far was
\* Foo::A(Box::new(Foo::B(10))): a is the element of the outer variant, b
\* that of the inner variant, n that of the number
SerializedFooAB(a, b, n) ==
  /\ Succeeded /\ nvalues = 1 /\ Len(allocated) = 3
  /\ {a, b} \subseteq DOMAIN tree
  /\ tree[a].k = "NewtypeVariant" /\ tree[a].kids = <<b>>
  /\ tree[b].k = "NewtypeVariant" /\ tree[b].kids = <<n>>
  /\ IsVariant(backend, a, "Foo", "A")
  /\ IsVariant(backend, b, "Foo", "B")
  /\ n \in DOMAIN backend.number_table /\ backend.number_table[n] = 10

(***************************************************************************)
(* C12: on a fresh extractor, serializing Foo::A(Box::new(Foo::B(10)))     *)
(* yields: element 1 is the outer variant A and its first field references *)
(* element 2; element 2 is the inner variant B and its first field         *)
(* references element 3; element 3 is the i64 with value 10.               *)
(***************************************************************************)
C12_DocExample ==
  \A a, b, n \in Range(allocated) :
    SerializedFooAB(a, b, n) =>
      /\ a = 1 /\ b = 2 /\ n = 3
      /\ backend.tuple_table[<<1, 0>>] = 2
      /\ backend.tuple_table[<<2, 0>>] = 3

\* the step about to be taken allocates the top-level element of the value
\* being serialized: a scalar, unit or container called by the caller
\* itself, or a wrapper called by the caller whose value has returned
AllocatesTopLevel ==
  \/ pc = "call" /\ ctl = <<>>
  \/ pc = "ret" /\ Len(ctl) = 1 /\ Top(ctl).k \in WrapperKinds

(***************************************************************************)
(* C13: after set_file(f), serializing one value of any shape (a value     *)
(* whose top level is a newtype struct, a newtype variant or Some          *)
(* included) records as the root element of f the ElemId of the value's    *)
(* top-level element, never that of one of its descendants.                *)
(***************************************************************************)
C13_RootIsTopLevel ==
  [][\A i \in DOMAIN calls' :
       calls'[i].call[1] = "add_root_elem" =>
         /\ AllocatesTopLevel
         /\ calls'[i].call = <<"add_root_elem", cur_file, cur_elem_id>>]_vars

(***************************************************************************)
(* Files: the caller names the file of a value before it serializes it     *)
(* (set_file), and serializes strings and sequences freely.                *)
(***************************************************************************)
FileKinds == {"set_file", "serialize_str", "serialize_seq",
              "serialize_newtype_struct"}

InitFiles == New(BackendKinds, FileKinds)

set_file_of_many == set_file_among(ManyFiles)

NextFiles ==
  \/ set_file_of_many \/ Serialize \/ Return
  \/ serialize_str \/ serialize_seq
  \/ enter_newtype_struct \/ serialize_newtype_struct
  \/ enter_element \/ serialize_tuple_or_seq_element
  \/ end

SpecFiles == InitFiles /\ [][NextFiles]_vars

\* the file name has a root element on record
HasRoot(b, file) ==
  /\ file \in DOMAIN b.symbol_table
  /\ b.symbol_table[file] \in DOMAIN b.root_elem_table

KeyedCalls == {"add_bool", "add_int", "add_char", "add_str",
               "add_struct_type", "add_variant_type", "add_struct_entry",
               "add_seq_entry", "add_tuple_entry", "add_map_entry"}

\* the symbol of s, 0 when s was never interned
SymbolOf(b, s) ==
  IF s \in DOMAIN b.symbol_table THEN b.symbol_table[s] ELSE 0

CallTable(c) ==
  CASE c[1] = "add_bool" -> "bool_table"
    [] c[1] = "add_int" -> "number_table"
    [] c[1] \in {"add_char", "add_str"} -> "string_table"
    [] c[1] = "add_struct_type" -> "struct_type_table"
    [] c[1] = "add_variant_type" -> "variant_type_table"
    [] c[1] = "add_struct_entry" -> "struct_table"
    [] c[1] = "add_seq_entry" -> "seq_table"
    [] c[1] = "add_tuple_entry" -> "tuple_table"
    [] c[1] = "add_map_entry" -> "map_table"

CallKey(b, c) ==
  CASE c[1] = "add_int" -> c[3]
    [] c[1] = "add_struct_entry" -> <<c[2], SymbolOf(b, c[3])>>
    [] c[1] \in {"add_seq_entry", "add_tuple_entry"} -> <<c[2], c[3]>>
    [] c[1] = "add_map_entry" ->
         IF b.kind = "elem" THEN <<c[2], c[3]>>
         ELSE IF c[3] \in DOMAIN b.string_table
              THEN <<c[2], b.string_table[c[3]]>>
              ELSE <<c[2], 0>>
    [] OTHER -> c[2]

\* the call c asks b for a row whose key b already holds
DuplicateKey(b, c) ==
  c[1] \in KeyedCalls /\ CallKey(b, c) \in DOMAIN b[CallTable(c)]

(***************************************************************************)
(* C15: in the in-memory backend, inserting a second row with a key that   *)
(* is already present in a uniqueness-keyed relation (bool, number,        *)
(* string, structType, variantType by elem; struct by (elem, field); seq   *)
(* and tuple by (elem, pos); map by (elem, key)) returns the error         *)
(* NonuniqueIdentifier, and the existing row stays as it was.              *)
(***************************************************************************)
C15_DuplicateRejected ==
  [][\A i \in DOMAIN calls' :
       DuplicateKey(backend, calls'[i].call) =>
         LET c == calls'[i].call
             t == CallTable(c)
             k == CallKey(backend, c)
         IN /\ calls'[i].res = NonuniqueIdentifier(c[2])
            /\ k \in DOMAIN backend'[t]
            /\ backend'[t][k] = backend[t][k]]_vars

\* isize::MAX
MaxSigned == 2^(NumBits - 1) - 1

(***************************************************************************)
(* C16: asked to store an unsigned 64-bit value larger than the largest    *)
(* signed value, add_u64 of a backend whose number relation is signed      *)
(* returns IntegerCastOverflow(value) and stores no row; it never stores   *)
(* a wrapped, negative value.                                              *)
(***************************************************************************)
C16_U64OverflowRejected ==
  [][\A i \in DOMAIN calls' :
       LET c == calls'[i].call
       IN (c[1] = "add_int" /\ c[2] \in {"U8", "U16", "U32", "U64"}
             /\ c[4] > MaxSigned) =>
            /\ calls'[i].res = IntegerCastOverflow(c[4])
            /\ backend'.number_table = backend.number_table]_vars

(***************************************************************************)
(* C17: in the string-keyed backend, add_map_entry(elem, key, value)       *)
(* succeeds only when the key element has a string fact at that moment,    *)
(* and the map row is then keyed by that string's symbol; when the key     *)
(* element is not a string (a number, a bool, a container, a unit, a       *)
(* variant) the call returns UnextractableData and adds no map row.        *)
(***************************************************************************)
C17_StringKeyedMapEntry ==
  [][\A i \in DOMAIN calls' :
       LET c == calls'[i].call
           res == calls'[i].res
           strings == backend.string_table
       IN (c[1] = "add_map_entry" /\ backend.kind = "string") =>
            /\ res = Ok =>
                 /\ c[3] \in DOMAIN strings
                 /\ <<c[2], strings[c[3]]>> \in DOMAIN backend'.map_table
                 /\ backend'.map_table[<<c[2], strings[c[3]]>>] = c[4]
                 /\ Rows(backend'.map_table) = Rows(backend.map_table) + 1
            /\ c[3] \notin DOMAIN strings =>
                 /\ res = UnextractableData
                 /\ backend'.map_table = backend.map_table]_vars

\* the string-keyed backend filed the entry "a" -> value under the symbol
\* of "a"
C17_Witness ==
  /\ backend.kind = "string" /\ op = "serialize_value"
  /\ calls # <<>> /\ Last(calls).res = Ok
  /\ \E k \in DOMAIN backend.map_table : k[2] = backend.symbol_table["a"]

\* the step's call i is add_map_entry of the string-keyed backend with the
\* key element k
RefilesKey(b, cs, i, k) ==
  /\ b.kind = "string"
  /\ cs[i].call[1] = "add_map_entry" /\ cs[i].call[3] = k

\* the step's call i panicked on the row of table t under the key k
PanickedOn(b, cs, i, t, k) ==
  /\ cs[i].res = Panic /\ cs[i].call[1] \in KeyedCalls
  /\ CallTable(cs[i].call) = t /\ CallKey(b, cs[i].call) = k

InternStrings == {"a", "b", "Foo", "Unit"}

InitIntern == New(BackendKinds, {})

Intern ==
  /\ Len(seen) < MaxInterns
  /\ \E s \in InternStrings :
       LET r == intern_string(backend, s)
       IN /\ backend' = r.b
          /\ seen' = Append(seen, [s |-> s, id |-> r.id])
          /\ op' = "intern_string" /\ calls' = <<>>
          /\ UNCHANGED <<cur_file, cur_elem_id, elem_stack, parent_stack, pc,
                         ctl, result, nvalues, lastId, allocated, tree, cnt,
                         failed, core, rare, db, other, script>>

NextIntern == Intern

SpecIntern == InitIntern /\ [][NextIntern]_vars

TagSet == Range(TypeTagNames)
\* the strings handed to the first i intern_string calls
SeenBy(i) == {seen[j].s : j \in 1 .. i}
\* the SymbolIds in use before the i-th call: those of the tag names and of
\* the other strings seen by then
UsedBefore(i) == Len(TypeTagNames) + Cardinality(SeenBy(i - 1) \ TagSet)

(***************************************************************************)
(* C19: for any sequence of intern calls on one backend, a string seen     *)
(* before gets the SymbolId it was first given and adds nothing, a new     *)
(* string gets the next unused SymbolId, two distinct strings never share  *)
(* a SymbolId, and the symbol table holds exactly one row per distinct     *)
(* string seen.                                                            *)
(***************************************************************************)
C19_Interning ==
  /\ \A i, j \in DOMAIN seen :
       (seen[i].s = seen[j].s) <=> (seen[i].id = seen[j].id)
  /\ \A i \in DOMAIN seen :
       IF seen[i].s \in TagSet \cup SeenBy(i - 1)
       THEN seen[i].id <= UsedBefore(i)
       ELSE seen[i].id = UsedBefore(i) + 1
  /\ \A i \in DOMAIN seen, t \in DOMAIN TypeTagNames :
       seen[i].s = TypeTagNames[t] => seen[i].id = t
  /\ DOMAIN backend.symbol_table = TagSet \cup SeenBy(Len(seen))
  /\ \A i \in DOMAIN seen : backend.symbol_table[seen[i].s] = seen[i].id
  /\ \A s1, s2 \in DOMAIN backend.symbol_table :
       s1 # s2 => backend.symbol_table[s1] # backend.symbol_table[s2]
  /\ backend.cur_symbol_id = Cardinality(DOMAIN backend.symbol_table) + 1

\* a new string, a tag name and the new string again were interned
C19_Witness ==
  /\ Len(seen) = MaxInterns
  /\ \E i, j, k \in DOMAIN seen :
       /\ i < j /\ j < k
       /\ seen[i].s \notin TagSet /\ seen[j].s \in TagSet
       /\ seen[k].s = seen[i].s

(***************************************************************************)
(* C20: a newly constructed in-memory backend has interned the thirteen    *)
(* type-tag names in a fixed order (Bool = 1, Number = 2, Str = 3,         *)
(* Map = 4, Seq = 5, Struct = 6, StructVariant = 7, Tuple = 8,             *)
(* TupleStruct = 9, TupleVariant = 10, Unit = 11, UnitStruct = 12,         *)
(* UnitVariant = 13); after any sequence of backend operations on any      *)
(* input these names have the same SymbolIds, and every user string that   *)
(* is not a tag name has a SymbolId of 14 or more.                         *)
(***************************************************************************)
C20_TagSymbolsFixed ==
  /\ Len(TypeTagNames) = 13
  /\ TypeTagNames = <<"Bool", "Number", "Str", "Map", "Seq", "Struct",
                      "StructVariant", "Tuple", "TupleStruct",
                      "TupleVariant", "Unit", "UnitStruct", "UnitVariant">>
  /\ \A i \in DOMAIN TypeTagNames :
       /\ TypeTagNames[i] \in DOMAIN backend.symbol_table
       /\ backend.symbol_table[TypeTagNames[i]] = i
  /\ \A s \in DOMAIN backend.symbol_table :
       s \notin TagSet => backend.symbol_table[s] >= 14

\* a unit variant named Unit, as the tag is, of the type Foo is on file,
\* under the tag's symbol
C20_Witness ==
  /\ "Foo" \in DOMAIN backend.symbol_table
  /\ \E id \in DOMAIN backend.variant_type_table :
       backend.variant_type_table[id]
         = <<backend.symbol_table["Foo"], backend.symbol_table[UNIT_NAME]>>
  /\ Len(backend.type_table) >= 2

(***************************************************************************)
(* The trait alone: its methods are called directly on a fresh backend of  *)
(* each kind, up to MaxValues calls, each about a fresh element.           *)
(***************************************************************************)
TraitKinds == {"elem", "string", "wide", "bare"}

\* the least, the all-ones and the greatest value of a signed width
SignedBoundary(bits) == {-(2^(bits - 1)), -1, 2^(bits - 1) - 1}
\* zero, the value of the top bit and the greatest value of an unsigned width
UnsignedBoundary(bits) == {0, 2^(bits - 1), 2^bits - 1}

\* the calls made about element elem: <<method, arguments>>
TraitCalls(elem) ==
  {<<"add_elem", <<elem, "Bool">>>>, <<"add_root_elem", <<"f1", elem>>>>,
   <<"add_bool", <<elem, TRUE>>>>, <<"add_f32", <<elem, "f">>>>,
   <<"add_f64", <<elem, "f">>>>, <<"add_bytes", <<elem, "b">>>>,
   <<"add_map_entry", <<elem, 1, 1>>>>,
   <<"add_struct_type", <<elem, "Foo">>>>,
   <<"add_struct_entry", <<elem, "x", 1>>>>,
   <<"add_seq_entry", <<elem, 0, 1>>>>,
   <<"add_variant_type", <<elem, "Foo", "A">>>>,
   <<"add_tuple_entry", <<elem, 0, 1>>>>}
  \cup {<<"add_char", <<elem, ch>>>> : ch \in {97, 98}}
  \cup {<<"add_str", <<elem, str>>>> : str \in {"a", "b"}}
  \cup UNION {{<<IntMethod(t), <<elem, v>>>> :
                 v \in SignedBoundary(IntBits(t))} :
               t \in {"I8", "I16", "I32", "I64"}}
  \cup UNION {{<<IntMethod(t), <<elem, v>>>> :
                 v \in UnsignedBoundary(IntBits(t))} :
               t \in {"U8", "U16", "U32", "U64"}}

InitTrait == New(TraitKinds, {})

Invoke ==
  /\ pc = "idle" /\ nvalues < MaxValues
  /\ \E c \in TraitCalls(nvalues + 1) :
       LET r == Dispatch(backend, c[1], c[2])
       IN /\ backend' = r.b
          /\ result' = r.res
          /\ calls' = <<[call |-> <<c[1]>> \o c[2], res |-> r.res]>>
          /\ op' = c[1]
          /\ nvalues' = nvalues + 1
          /\ pc' = IF r.res = Panic THEN "panic" ELSE "idle"
          /\ UNCHANGED <<cur_file, cur_elem_id, elem_stack, parent_stack,
                         ctl, lastId, allocated, tree, cnt, failed, core,
                         rare, seen, db, other, script>>

NextTrait == Invoke

SpecTrait == InitTrait /\ [][NextTrait]_vars

\* the wide method a narrow method stands for
WideOf(method) ==
  CASE method \in {"add_i8", "add_i16", "add_i32"} -> "add_i64"
    [] method \in {"add_u8", "add_u16", "add_u32"} -> "add_u64"
    [] method = "add_f32" -> "add_f64"
    [] method = "add_char" -> "add_str"

\* the string whose only scalar value is ch
OneCharString(ch) == CHOOSE str \in {"a", "b", "x", "Foo"} : chars(str) = <<ch>>

\* the same value as the wide method takes it
SameValue(method, value) ==
  IF method = "add_char" THEN OneCharString(value) ELSE value

(***************************************************************************)
(* C21: on a backend whose impl block has none of the narrow methods, a    *)
(* call of add_i8, add_i16, add_i32, add_u8, add_u16, add_u32, add_f32 or  *)
(* add_char returns what add_i64, add_u64, add_f64 or add_str returns for  *)
(* the same element and the same numeric value (for a char, the string of  *)
(* that one char), and leaves the same backend behind.                     *)
(***************************************************************************)
C21_NarrowAsWide ==
  [][(op' \in ForwardingDefaults /\ nvalues' = nvalues + 1) =>
       LET c == calls'[1].call
           r == Dispatch(backend, WideOf(c[1]),
                         <<c[2], SameValue(c[1], c[3])>>)
       IN backend' = r.b /\ result' = r.res]_vars

\* add_i8 of the least i8 on the backend that has add_i64 only: the number
\* row holds that negative value
C21_Witness ==
  /\ backend.kind = "wide" /\ op = "add_i8" /\ result = Ok
  /\ LET c == calls[1].call
     IN /\ c[3] = -(2^(IntBits("I8") - 1))
        /\ c[2] \in DOMAIN backend.number_table
        /\ backend.number_table[c[2]] = c[3]

(***************************************************************************)
(* C22 as stated: a method the backend's impl block does not have returns  *)
(* UnextractableData and leaves the backend as it was.                     *)
(***************************************************************************)
C22_EveryDefaultUnextractable ==
  [][(nvalues' = nvalues + 1 /\ op' \notin Overrides(backend.kind)) =>
       /\ result'[1] = "UnextractableData"
       /\ backend' = backend]_vars

(***************************************************************************)
(* C22, amended: a default method of add_bool, add_i64, add_u64, add_f64,  *)
(* add_str, add_bytes, add_map_entry, add_struct_type, add_struct_entry,   *)
(* add_seq_entry, add_variant_type or add_tuple_entry returns              *)
(* UnextractableData naming its kind and leaves the backend as it was; a   *)
(* default method of a narrow type forwards, so it does the same (naming   *)
(* the wide kind) exactly when the backend has no wide method either.      *)
(***************************************************************************)
C22_ErrorDefaultsUnextractable ==
  [][(nvalues' = nvalues + 1 /\ op' \notin Overrides(backend.kind)) =>
       LET named == IF op' \in ErrorDefaults THEN op' ELSE WideOf(op')
           kind == CASE named = "add_bool" -> "bool"
                     [] named = "add_i64" -> "i64"
                     [] named = "add_u64" -> "u64"
                     [] named = "add_f64" -> "f64"
                     [] named = "add_str" -> "str"
                     [] named = "add_bytes" -> "bytes"
                     [] named = "add_map_entry" -> "map entry"
                     [] named = "add_struct_type" -> "struct type"
                     [] named = "add_struct_entry" -> "struct entry"
                     [] named = "add_seq_entry" -> "seq entry"
                     [] named = "add_variant_type" -> "variant type"
                     [] named = "add_tuple_entry" -> "tuple entry"
       IN IF named \notin Overrides(backend.kind)
          THEN result' = <<"UnextractableData", kind>> /\ backend' = backend
          ELSE result' = Impl(backend, named,
                              <<calls'[1].call[2],
                                SameValue(op', calls'[1].call[3])>>).res]_vars

\* the backend without optional methods was asked for a map entry
C22_Witness ==
  /\ backend.kind = "bare" /\ op = "add_map_entry" /\ nvalues > 0
  /\ result = <<"UnextractableData", "map entry">>
  /\ backend = DefaultBackend("bare")

(***************************************************************************)
(* Persistence: dump_to_db of the relational backends.  The SQLite file    *)
(* is what another connection reads: the committed schema, each entry      *)
(* <<name, table, cols>> (a table has table = "", a view selects the rows   *)
(* of `table` and shows the columns `cols` through __SymbolTable), and the *)
(* committed rows, each <<table, primary key, row>>.                       *)
(***************************************************************************)
EmptyFile == [schema |-> {}, rows |-> {}]

SqliteFailure(msg) == <<"SqliteFailure", msg>>

\* the batch BEGIN; CREATE TABLE ..; CREATE VIEW ..; COMMIT; of
\* BackendUtil::dump_to_db
SchemaBatch ==
  {<<"__SymbolTable", "", {}>>,
   <<"_rootElem", "", {}>>, <<"rootElem", "_rootElem", {1}>>,
   <<"_type", "", {}>>, <<"type", "_type", {2}>>,
   <<"_bool", "", {}>>, <<"bool", "_bool", {}>>,
   <<"_number", "", {}>>, <<"number", "_number", {}>>,
   <<"_string", "", {}>>, <<"string", "_string", {2}>>,
   <<"_struct", "", {}>>, <<"struct", "_struct", {2}>>,
   <<"_seq", "", {}>>, <<"seq", "_seq", {}>>,
   <<"_tuple", "", {}>>, <<"tuple", "_tuple", {}>>,
   <<"_structType", "", {}>>, <<"structType", "_structType", {2}>>,
   <<"_variantType", "", {}>>, <<"variantType", "_variantType", {2, 3}>>}

\* the batch of Backend::dump_to_db and of StringKeyBackend::dump_to_db:
\* the string-keyed view shows the key through __SymbolTable
MapBatch(kind) ==
  {<<"_map", "", {}>>,
   <<"map", "_map", IF kind = "sqlite_string" THEN {2} ELSE {}>>}

\* a variant of bool_as_integer that stores 0 for every bool
bool_as_zero(value) == 0

\* if *value { 1 } else { 0 }
bool_as_integer(value) == IF value THEN 1 ELSE 0

\* the rows of a sequence or set, one after another; a HashMap is iterated
\* in an order of its own, here the one CHOOSE fixes
RECURSIVE InSomeOrder(_)
InSomeOrder(S) ==
  IF S = {} THEN <<>>
  ELSE LET x == CHOOSE x \in S : TRUE IN <<x>> \o InSomeOrder(S \ {x})

\* INSERT INTO table .. VALUES row, one statement per row of the in-memory
\* table m; the primary key of the table is the key of m
InsertAll(table, m, row(_)) ==
  InSomeOrder({<<"insert", table, k, row(k)>> : k \in DOMAIN m})

\* the INSERTs into __SymbolTable, _rootElem and _type, in program order:
\* the tables no foreign key leaves
KeyInserts(b) ==
  LET symbol_of == [id \in {b.symbol_table[x] : x \in DOMAIN b.symbol_table}
                      |-> CHOOSE x \in DOMAIN b.symbol_table :
                            b.symbol_table[x] = id]
      sym(id) == <<id, symbol_of[id]>>
      root(f) == <<f, b.root_elem_table[f]>>
  IN InsertAll("__SymbolTable", symbol_of, sym)
     \o InsertAll("_rootElem", b.root_elem_table, root)
     \o [i \in DOMAIN b.type_table |->
           <<"insert", "_type", b.type_table[i][1], b.type_table[i]>>]

\* the INSERTs into _bool .. _variantType, in program order
FactInserts(b) ==
  LET bool(id) == <<id, bool_as_integer(b.bool_table[id])>>
      num(id) == <<id, b.number_table[id]>>
      str(id) == <<id, b.string_table[id]>>
      struct(k) == <<k[1], k[2], b.struct_table[k]>>
      seq(k) == <<k[1], k[2], b.seq_table[k]>>
      tuple(k) == <<k[1], k[2], b.tuple_table[k]>>
      stype(id) == <<id, b.struct_type_table[id]>>
      vtype(id) == <<id, b.variant_type_table[id][1],
                     b.variant_type_table[id][2]>>
  IN InsertAll("_bool", b.bool_table, bool)
     \o InsertAll("_number", b.number_table, num)
     \o InsertAll("_string", b.string_table, str)
     \o InsertAll("_struct", b.struct_table, struct)
     \o InsertAll("_seq", b.seq_table, seq)
     \o InsertAll("_tuple", b.tuple_table, tuple)
     \o InsertAll("_structType", b.struct_type_table, stype)
     \o InsertAll("_variantType", b.variant_type_table, vtype)

\* the batch and the INSERTs of Backend::dump_to_db and of
\* StringKeyBackend::dump_to_db
MapInserts(b) ==
  LET map(k) == <<k[1], k[2], b.map_table[k]>>
  IN <<<<"batch", MapBatch(b.kind)>>>>
     \o InsertAll("_map", b.map_table, map)

\* a variant of Statements that inserts the facts before the symbols and
\* the type rows
StatementsFactsFirst(b) ==
  <<<<"batch", SchemaBatch>>>>
  \o FactInserts(b) \o KeyInserts(b) \o MapInserts(b)

\* the statements of dump_to_db for the data b, in program order
Statements(b) ==
  <<<<"batch", SchemaBatch>>>>
  \o KeyInserts(b) \o FactInserts(b) \o MapInserts(b)

SchemaNames(file) == {x[1] : x \in file.schema}

\* a variant of execute_batch whose statements are CREATE .. IF NOT EXISTS
execute_batch_if_not_exists(file, entries) ==
  [file |-> [file EXCEPT
               !.schema = @ \cup {x \in entries : x[1] \notin SchemaNames(file)}],
   res |-> Ok]

\* conn.execute_batch("BEGIN; CREATE ..; COMMIT;"): a CREATE of a name the
\* file has fails, the batch ends there and the open transaction is rolled
\* back when the connection is dropped
execute_batch(file, entries) ==
  IF \E x \in entries : x[1] \in SchemaNames(file)
  THEN [file |-> file, res |-> SqliteFailure("already exists")]
  ELSE [file |-> [file EXCEPT !.schema = @ \cup entries], res |-> Ok]

\* statement.execute(row) of a prepared INSERT, outside any transaction:
\* the row is committed when the call returns
execute_insert(file, table, key, row) ==
  IF table \notin SchemaNames(file)
  THEN [file |-> file, res |-> SqliteFailure("no such table")]
  ELSE IF \E r \in file.rows : r[1] = table /\ r[2] = key
  THEN [file |-> file, res |-> SqliteFailure("constraint")]
  ELSE [file |-> [file EXCEPT !.rows = @ \cup {<<table, key, row>>}],
        res |-> Ok]

execute_statement(file, stmt) ==
  IF stmt[1] = "batch" THEN execute_batch(file, stmt[2])
  ELSE execute_insert(file, stmt[2], stmt[3], stmt[4])

\* the file after every statement of dump_to_db ran on it
RECURSIVE RunFrom(_, _, _)
RunFrom(file, stmts, i) ==
  IF i > Len(stmts) THEN file
  ELSE RunFrom(execute_statement(file, stmts[i]).file, stmts, i + 1)

Persisted(b) == RunFrom(EmptyFile, Statements(b), 1)

\* what an earlier run left: the extraction of `true`
EarlierData ==
  add_bool(add_elem(DefaultBackend("sqlite"), 1, "Bool").b, 1, TRUE).b

EarlierFile == Persisted(EarlierData)

\* the kinds of the runs that are persisted
DbKinds ==
  {"set_file", "serialize_bool", "serialize_str", "serialize_unit_variant",
   "serialize_map"}

InitDb ==
  /\ Fresh({"sqlite", "sqlite_string"}, DbKinds)
  /\ other = NoRun
  /\ \E f \in {EmptyFile, EarlierFile} :
       db = [pc |-> "none", before |-> f, file |-> f, at |-> 0, res |-> Ok]

\* dump_to_db(self, filename) up to Connection::open: the extractor is gone
\* and the backend is consumed
dump_to_db ==
  /\ pc = "idle" /\ db.pc = "none"
  /\ db' = [db EXCEPT !.pc = "run", !.at = 1]
  /\ op' = "dump_to_db" /\ calls' = <<>>
  /\ UNCHANGED <<cur_file, cur_elem_id, elem_stack, parent_stack, backend,
                 pc, ctl, result, nvalues, lastId, allocated, tree, cnt,
                 failed, core, rare, seen, other, script>>

\* the next statement of dump_to_db; it fails by itself or by an I/O error,
\* and `?` returns the first failure
execute ==
  /\ db.pc = "run"
  /\ \E io \in {"ok", "error"} :
       LET stmts == Statements(backend)
           r == IF io = "error"
                THEN [file |-> db.file, res |-> SqliteFailure("io")]
                ELSE execute_statement(db.file, stmts[db.at])
       IN db' = [db EXCEPT
                   !.file = r.file, !.res = r.res,
                   !.at = IF r.res = Ok THEN @ + 1 ELSE @,
                   !.pc = IF r.res # Ok THEN "failed"
                          ELSE IF db.at = Len(stmts) THEN "done" ELSE "run"]
  /\ op' = "execute" /\ calls' = <<>>
  /\ UNCHANGED <<cur_file, cur_elem_id, elem_stack, parent_stack, backend,
                 pc, ctl, result, nvalues, lastId, allocated, tree, cnt,
                 failed, core, rare, seen, other, script>>

\* the backend can be extracted into until dump_to_db takes it
Held == db.pc = "none"

NextDb ==
  \/ (Held /\ set_file) \/ (Held /\ Serialize) \/ (Held /\ Return)
  \/ (Held /\ serialize_bool) \/ (Held /\ serialize_str)
  \/ (Held /\ serialize_unit_variant) \/ (Held /\ serialize_map)
  \/ (Held /\ enter_key) \/ (Held /\ serialize_key)
  \/ (Held /\ enter_value) \/ (Held /\ serialize_value)
  \/ (Held /\ end)
  \/ dump_to_db \/ execute

SpecDb == InitDb /\ [][NextDb]_vars

(***************************************************************************)
(* C23: from the moment dump_to_db is called, the file holds either what   *)
(* it held before the call or the whole schema and every row of the run,   *)
(* nothing in between, also after a statement failed.                      *)
(***************************************************************************)
C23_AllOrNothing ==
  db.pc # "none" => db.file = db.before \/ db.file = Persisted(backend)

(***************************************************************************)
(* The facts of a store as Souffle reads them: <<relation, row>> with      *)
(* every symbol id replaced by its string.                                 *)
(***************************************************************************)
\* the strings __SymbolTable holds for id
SymbolsAt(file, id) ==
  {r[3][2] : r \in {x \in file.rows : x[1] = "__SymbolTable" /\ x[2] = id}}

\* a view: the rows of its table, the columns cols joined with
\* __SymbolTable (INNER JOIN: a row without a symbol is not shown)
ViewRows(file, view) ==
  LET shown(row) ==
        [c \in DOMAIN row |->
           IF c \in view[3] THEN CHOOSE x \in SymbolsAt(file, row[c]) : TRUE
           ELSE row[c]]
  IN {<<view[1], shown(r[3])>> :
        r \in {x \in file.rows :
                 /\ x[1] = view[2]
                 /\ \A c \in view[3] : SymbolsAt(file, x[3][c]) # {}}}

FileFacts(file) ==
  UNION {ViewRows(file, view) : view \in {x \in file.schema : x[2] # ""}}

\* the string of a symbol id of the in-memory backend
SymbolName(b, id) ==
  CHOOSE x \in DOMAIN b.symbol_table : b.symbol_table[x] = id

\* the facts of the in-memory backend; a bool is the number Souffle sees
MemoryFacts(b) ==
  {<<"rootElem", <<SymbolName(b, f), b.root_elem_table[f]>>>> :
     f \in DOMAIN b.root_elem_table}
  \cup {<<"type", <<b.type_table[i][1], SymbolName(b, b.type_table[i][2])>>>> :
          i \in DOMAIN b.type_table}
  \cup {<<"bool", <<id, IF b.bool_table[id] THEN 1 ELSE 0>>>> :
          id \in DOMAIN b.bool_table}
  \cup {<<"number", <<id, b.number_table[id]>>>> :
          id \in DOMAIN b.number_table}
  \cup {<<"string", <<id, SymbolName(b, b.string_table[id])>>>> :
          id \in DOMAIN b.string_table}
  \cup {<<"struct", <<k[1], SymbolName(b, k[2]), b.struct_table[k]>>>> :
          k \in DOMAIN b.struct_table}
  \cup {<<"seq", <<k[1], k[2], b.seq_table[k]>>>> : k \in DOMAIN b.seq_table}
  \cup {<<"tuple", <<k[1], k[2], b.tuple_table[k]>>>> :
          k \in DOMAIN b.tuple_table}
  \cup {<<"structType", <<id, SymbolName(b, b.struct_type_table[id])>>>> :
          id \in DOMAIN b.struct_type_table}
  \cup {<<"variantType",
          <<id, SymbolName(b, b.variant_type_table[id][1]),
            SymbolName(b, b.variant_type_table[id][2])>>>> :
          id \in DOMAIN b.variant_type_table}
  \cup {<<"map",
          <<k[1],
            IF b.kind \in {"string", "sqlite_string"}
            THEN SymbolName(b, k[2]) ELSE k[2],
            b.map_table[k]>>>> :
          k \in DOMAIN b.map_table}

(***************************************************************************)
(* C24: the relational backend holds its facts in the in-memory backend it *)
(* delegates to; once dump_to_db has returned Ok on a file that was empty, *)
(* the facts the views of the file show are the facts of that in-memory    *)
(* backend with its symbol ids resolved through its symbol table.          *)
(***************************************************************************)
C24_SameFacts ==
  db.pc = "done" => FileFacts(db.file) = MemoryFacts(backend)

\* a run with a bool, and a map or a string, was persisted
C24_Witness ==
  /\ db.pc = "done" /\ db.res = Ok /\ nvalues > 0
  /\ DOMAIN backend.bool_table # {}
  /\ DOMAIN backend.map_table # {} \/ DOMAIN backend.string_table # {}
  /\ \E x \in db.file.rows : x[1] = "_bool"

(***************************************************************************)
(* C25: when the target file holds the schema of an earlier run,           *)
(* dump_to_db fails at its first statement, never returns Ok, and the file *)
(* stays as the earlier run left it.                                       *)
(***************************************************************************)
C25_NoMerge ==
  (db.pc # "none" /\ db.before.schema # {}) =>
    /\ db.file = db.before
    /\ db.pc \in {"run", "failed"}
    /\ db.at = 1
    /\ db.pc = "failed" => db.res # Ok

\* a run with facts of its own met the file of an earlier run
C25_Witness ==
  /\ db.pc = "failed" /\ db.res = SqliteFailure("already exists")
  /\ db.before = EarlierFile /\ db.file = EarlierFile
  /\ nvalues > 0 /\ Len(backend.type_table) > 1

(***************************************************************************)
(* Two extractors, each made by DatalogExtractor::new with a backend of    *)
(* its own.  The variables hold the extractor being called; `other` holds  *)
(* the fields of the one that waits.  The caller turns from one to the     *)
(* other between any two calls.                                            *)
(***************************************************************************)
TwoKinds == {"serialize_i64", "serialize_seq"}

\* the fields of the extractor being called, its backend and its caller's
\* position; mixed records that a value of one extractor was interrupted
Parked(run, mixed) ==
  [run |-> run, mixed |-> mixed,
   cur_file |-> cur_file, cur_elem_id |-> cur_elem_id,
   elem_stack |-> elem_stack, parent_stack |-> parent_stack,
   backend |-> backend, pc |-> pc, ctl |-> ctl, result |-> result,
   nvalues |-> nvalues, lastId |-> lastId, allocated |-> allocated,
   tree |-> tree, cnt |-> cnt, failed |-> failed, script |-> script]

\* a variant of Resume with one ElemId counter for both extractors
ResumeSharedCounter(r) ==
  /\ cur_file' = r.cur_file /\ cur_elem_id' = cur_elem_id
  /\ elem_stack' = r.elem_stack /\ parent_stack' = r.parent_stack
  /\ backend' = r.backend /\ pc' = r.pc /\ ctl' = r.ctl
  /\ result' = r.result /\ nvalues' = r.nvalues /\ lastId' = r.lastId
  /\ allocated' = r.allocated /\ tree' = r.tree /\ cnt' = r.cnt
  /\ failed' = r.failed /\ script' = r.script

\* the next call goes to the extractor r: self is r
Resume(r) ==
  /\ cur_file' = r.cur_file /\ cur_elem_id' = r.cur_elem_id
  /\ elem_stack' = r.elem_stack /\ parent_stack' = r.parent_stack
  /\ backend' = r.backend /\ pc' = r.pc /\ ctl' = r.ctl
  /\ result' = r.result /\ nvalues' = r.nvalues /\ lastId' = r.lastId
  /\ allocated' = r.allocated /\ tree' = r.tree /\ cnt' = r.cnt
  /\ failed' = r.failed /\ script' = r.script

InitTwo ==
  /\ Fresh({"elem"}, TwoKinds)
  /\ db = NoDb
  /\ other = Parked(2, FALSE)

Switch ==
  /\ other # NoRun /\ pc # "panic"
  /\ other' = Parked(3 - other.run, other.mixed \/ pc # "idle")
  /\ Resume(other)
  /\ op' = "switch" /\ calls' = <<>>
  /\ UNCHANGED <<core, rare, seen, db>>

NextTwo ==
  \/ Switch \/ Serialize \/ Return
  \/ serialize_i64 \/ serialize_seq
  \/ enter_element \/ serialize_tuple_or_seq_element
  \/ end

SpecTwo == InitTwo /\ [][NextTwo]_vars

\* the ElemIds of a run made alone: 1, 2, .. in allocation order
CountsFromOne(ids) == \A i \in DOMAIN ids : ids[i] = i

EntryMethods ==
  {"add_seq_entry", "add_tuple_entry", "add_struct_entry", "add_map_entry"}

(***************************************************************************)
(* C27: when a child of a seq, tuple, struct or map has been serialized,   *)
(* the entry call made for it names the innermost open container as the    *)
(* parent and the child's own ElemId as the value, at any depth and for    *)
(* wrapped children too.                                                   *)
(***************************************************************************)
C27_EntryNamesParentAndChild ==
  [][(pc = "ret" /\ ctl # <<>> /\ Top(ctl).k \in {"element", "field", "value"})
       => \A i \in DOMAIN calls' :
            calls'[i].call[1] \in EntryMethods =>
              /\ calls'[i].call[2] = Top(ctl).id
              /\ calls'[i].call[4] = lastId]_vars

\* the rows that name id as a child: as the value of a seq, tuple, struct
\* or map row, or as the key of a map row of the element-keyed backend
ChildRows(b, id) ==
  UNION {{<<t, k>> : k \in {x \in DOMAIN b[t] : b[t][x] = id}} :
           t \in {"seq_table", "tuple_table", "struct_table", "map_table"}}
  \cup {<<"map key", k>> :
          k \in {x \in DOMAIN b.map_table : b.kind = "elem" /\ x[2] = id}}

(***************************************************************************)
(* C28: after one value was serialized successfully into the backend whose *)
(* map rows name the key element, every element but the top-level one is   *)
(* named as a child by exactly one entry row, and the top-level element by *)
(* none.                                                                   *)
(***************************************************************************)
C28_EntriesFormTree ==
  (Succeeded /\ nvalues = 1 /\ backend.kind = "elem") =>
    \A i \in DOMAIN allocated :
      Cardinality(ChildRows(backend, allocated[i]))
        = IF allocated[i] = lastId THEN 0 ELSE 1

\* no ElemId is on the stack twice
EachOnce(stack) ==
  \A i, j \in DOMAIN stack : stack[i] = stack[j] => i = j

(***************************************************************************)
(* C29: when a value has been serialized, its own ElemId is on top of the  *)
(* element stack and no ElemId is on the stack twice; a value serialized   *)
(* in one call (scalar, unit, unit struct, unit variant, None) leaves the  *)
(* stack exactly one entry deeper than it was.                             *)
(***************************************************************************)
C29_OneEntryPerValue ==
  [][pc' = "ret" =>
       /\ elem_stack' # <<>>
       /\ Last(elem_stack') = lastId'
       /\ EachOnce(elem_stack')
       /\ pc = "call" => Len(elem_stack') = Len(elem_stack) + 1]_vars

\* the frames of the containers that were begun and not ended
OpenContainers == SelectSeq(ctl, LAMBDA f : f.k \in ContainerKinds)

RootCalls(cs) == {i \in DOMAIN cs : cs[i].call[1] = "add_root_elem"}

C31_MarkerConsumedOnFirstUse ==
  [][/\ (Len(allocated') > Len(allocated) /\ cur_file # None) =>
          /\ \E i \in RootCalls(calls') :
               calls'[i].call =
                 <<"add_root_elem", cur_file, allocated'[Len(allocated) + 1]>>
          /\ cur_file' = None
     /\ RootCalls(calls') # {} =>
          /\ cur_file # None
          /\ Len(allocated') > Len(allocated)
          /\ Cardinality(RootCalls(calls')) = 1
          /\ \A i \in RootCalls(calls') :
               calls'[i].call =
                 <<"add_root_elem", cur_file, allocated'[Len(allocated) + 1]>>
    ]_vars

(***************************************************************************)
(* Unit values: what their serialization files.                            *)
(***************************************************************************)
\* the elements with a type row under the tag `name`
ElemsTyped(b, name) == {b.type_table[i][1] : i \in Typed(b, name)}

\* the elements that are the subject of a value row or of an entry row
ValueSubjects(b) ==
  DOMAIN b.bool_table \cup DOMAIN b.number_table \cup DOMAIN b.string_table
  \cup Subjects(b.seq_table) \cup Subjects(b.tuple_table)
  \cup Subjects(b.struct_table) \cup Subjects(b.map_table)

\* the calls of a step but the add_root_elem call of a named value
BesidesRoot(cs) == SelectSeq(cs, LAMBDA c : c.call[1] # "add_root_elem")

UnitOps == {"serialize_unit", "serialize_unit_struct",
            "serialize_unit_variant", "serialize_none"}

\* the calls a unit value of the operation makes for its element id
UnitCallsMade(name, cs, id) ==
  /\ \A i \in DOMAIN cs : cs[i].res = Ok
  /\ CASE name = "serialize_unit" ->
            /\ Len(BesidesRoot(cs)) = 1
            /\ BesidesRoot(cs)[1].call = <<"add_elem", id, "Unit">>
       [] name = "serialize_unit_struct" ->
            /\ Len(BesidesRoot(cs)) = 2
            /\ BesidesRoot(cs)[1].call = <<"add_elem", id, "UnitStruct">>
            /\ SubSeq(BesidesRoot(cs)[2].call, 1, 2) = <<"add_struct_type", id>>
       [] name \in {"serialize_unit_variant", "serialize_none"} ->
            /\ Len(BesidesRoot(cs)) = 2
            /\ BesidesRoot(cs)[1].call = <<"add_elem", id, "UnitVariant">>
            /\ SubSeq(BesidesRoot(cs)[2].call, 1, 2) = <<"add_variant_type", id>>

(***************************************************************************)
(* C32: a unit value files a type row only, a unit struct a type row and   *)
(* one structType row, a unit variant a type row and one variantType row;  *)
(* an element of one of these three types is never the subject of a bool,  *)
(* number, string, seq, tuple, struct or map row.                          *)
(***************************************************************************)
C32_UnitValuesHaveNoValueFact ==
  /\ [](LET units == ElemsTyped(backend, UNIT_NAME)
            structs == ElemsTyped(backend, UNIT_STRUCT_NAME)
            variants == ElemsTyped(backend, UNIT_VARIANT_NAME)
        IN /\ (units \cup structs \cup variants) \cap ValueSubjects(backend) = {}
           /\ (units \cup variants) \cap DOMAIN backend.struct_type_table = {}
           /\ (units \cup structs) \cap DOMAIN backend.variant_type_table = {})
  /\ [][(op' \in UnitOps /\ pc = "call" /\ pc' = "ret") =>
          /\ Len(allocated') = Len(allocated) + 1
          /\ UnitCallsMade(op', calls', lastId')
          /\ Len(backend'.type_table) = Len(backend.type_table) + 1
          /\ (op' = "serialize_unit_struct") =
               (lastId' \in DOMAIN backend'.struct_type_table)
          /\ (op' \in {"serialize_unit_variant", "serialize_none"}) =
               (lastId' \in DOMAIN backend'.variant_type_table)]_vars

\* a unit variant was serialized as the element of a sequence
C32_Witness ==
  /\ op = "serialize_unit_variant" /\ pc = "ret" /\ parent_stack # <<>>
  /\ lastId \in ElemsTyped(backend, UNIT_VARIANT_NAME)
  /\ lastId \in DOMAIN backend.variant_type_table

(***************************************************************************)
(* Refusals: the caller names files and serializes floats, which the       *)
(* in-memory backend refuses at add_elem, next to strings and sequences.   *)
(***************************************************************************)
RefusalKinds == {"set_file", "serialize_f32", "serialize_str", "serialize_seq"}

InitRefusals == New(BackendKinds, RefusalKinds)

NextRefusals ==
  \/ set_file \/ Serialize \/ Return
  \/ serialize_f32 \/ serialize_str \/ serialize_seq
  \/ enter_element \/ serialize_tuple_or_seq_element
  \/ end

SpecRefusals == InitRefusals /\ [][NextRefusals]_vars

(***************************************************************************)
(* C33: a step whose add_elem call is refused leaves the id counter, the   *)
(* element stack, the parent stack and the file marker as they were, and   *)
(* files no row; the refused id is the one the next accepted element gets  *)
(* (the ids of the accepted elements are 1, 2, .. without a gap), and      *)
(* every element a row mentions has a type row.                            *)
(***************************************************************************)
RefusedElems(cs) ==
  {i \in DOMAIN cs : cs[i].call[1] = "add_elem" /\ cs[i].res # Ok}

C33_RefusedElemLeavesNoTrace ==
  /\ [](/\ \A i \in DOMAIN allocated : allocated[i] = i
        /\ cur_elem_id = Len(allocated) + 1
        /\ RelationElems(backend)
             \subseteq {backend.type_table[i][1] : i \in DOMAIN backend.type_table})
  /\ [][RefusedElems(calls') # {} =>
          /\ \A i \in RefusedElems(calls') :
               i = 1 /\ Len(calls') = 1 /\ calls'[i].call[2] = cur_elem_id
          /\ UNCHANGED <<cur_elem_id, elem_stack, parent_stack, cur_file,
                         allocated>>
          /\ backend'.type_table = backend.type_table
          /\ \A t \in Tables \ {"symbol_table"} : backend'[t] = backend[t]
          /\ result' = calls'[1].res]_vars

\* a float was refused while a file marker was pending and a sequence of
\* an earlier, failed value was still open: nothing of that has changed
C33_Witness ==
  /\ RefusedElems(calls) # {} /\ result = calls[1].res
  /\ cur_file # None /\ elem_stack # <<>> /\ parent_stack # <<>>
  /\ cur_elem_id = Len(allocated) + 1

(***************************************************************************)
(* A value after a failed call: two extractors, each with a backend of its *)
(* own; the caller serializes values with the first one until after a     *)
(* call failed, then turns to the second, so the first may have serialized *)
(* a value after the failed call and the second the same value as its      *)
(* first.                                                                  *)
(***************************************************************************)
AgainKinds == {"serialize_f32", "serialize_i64", "serialize_none",
               "serialize_seq"}

InitAgain ==
  /\ Fresh(BackendKinds, AgainKinds)
  /\ db = NoDb
  /\ other = Parked(2, FALSE)

\* the caller is done with the first extractor, a call of which failed,
\* and turns to the second
SwitchBetweenValues ==
  /\ pc = "idle" /\ failed
  /\ other # NoRun /\ other.run = 2
  /\ Switch

\* the first extractor is given values freely, the second one value
SerializeAgain == (other # NoRun /\ (other.run = 2 \/ nvalues = 0)) /\ Serialize

NextAgain ==
  \/ SwitchBetweenValues \/ SerializeAgain \/ Return
  \/ serialize_f32 \/ serialize_i64 \/ serialize_none \/ serialize_seq
  \/ enter_element \/ serialize_tuple_or_seq_element
  \/ end

SpecAgain == InitAgain /\ [][NextAgain]_vars

\* the calls of the last serialize call of a script, and those before it
LastSerialize(s) ==
  CHOOSE i \in DOMAIN s :
    s[i] = "serialize" /\ \A j \in DOMAIN s : s[j] = "serialize" => j <= i
ValueScript(s) == SubSeq(s, LastSerialize(s), Len(s))
EarlierScript(s) == SubSeq(s, 1, LastSerialize(s) - 1)

\* the facts of the backend b about the elements after the first d, with
\* every ElemId lowered by d
FactsAfter(b, d) ==
  {<<"type", i - Cardinality({j \in 1 .. i : b.type_table[j][1] <= d}),
     b.type_table[i][1] - d, b.type_table[i][2]>> :
     i \in {j \in DOMAIN b.type_table : b.type_table[j][1] > d}}
  \cup {<<"number", x - d, b.number_table[x]>> :
          x \in {y \in DOMAIN b.number_table : y > d}}
  \cup {<<"variantType", x - d, b.variant_type_table[x]>> :
          x \in {y \in DOMAIN b.variant_type_table : y > d}}
  \cup {<<"seq", k[1] - d, k[2], b.seq_table[k] - d>> :
          k \in {y \in DOMAIN b.seq_table : y[1] > d}}

\* the rows that link an element after the first d with one of the first d
LinksAcross(b, d) ==
  {k \in DOMAIN b.seq_table : (k[1] > d) # (b.seq_table[k] > d)}

\* the first extractor returned from a second call, after a first call
\* that failed, and the second one from its first call, given the same value
SameValueAfterFailure ==
  /\ other # NoRun /\ other.run = 1 /\ pc = "idle" /\ other.pc = "idle"
  /\ other.nvalues = 2 /\ nvalues = 1
  /\ EarlierScript(other.script) # <<>>
  /\ Last(EarlierScript(other.script)) # "return"
  /\ ValueScript(other.script) = script

(***************************************************************************)
(* C34: a value serialized after a call that failed partway gets the facts *)
(* a fresh extractor emits for it, with every ElemId shifted by the number *)
(* of elements allocated before, and the same result; no row links an      *)
(* element of the value with an element left from the failed call.         *)
(***************************************************************************)
C34_SameFactsAfterFailure ==
  SameValueAfterFailure =>
    LET d == Len(other.allocated) - Len(allocated)
    IN /\ d >= 0
       /\ other.result = result
       /\ FactsAfter(other.backend, d) = FactsAfter(backend, 0)
       /\ LinksAcross(other.backend, d) = {}
       /\ other.cur_elem_id = cur_elem_id + d

\* the failed call left a sequence open and its id unlinked, and the value
\* after it was a sequence with an element
C34_Witness ==
  /\ SameValueAfterFailure /\ result = Ok
  /\ Len(other.parent_stack) = 1 /\ other.parent_stack[1][1] = 1
  /\ other.elem_stack[1] = 1
  /\ \E k \in DOMAIN other.backend.seq_table : k[1] > 1

(***************************************************************************)
(* add_elem alone: it is called on an in-memory backend with a fresh       *)
(* element of every element type, up to MaxValues times.                   *)
(***************************************************************************)
InitElemTypes == New(BackendKinds, {})

add_elem_of_any_type ==
  /\ pc = "idle" /\ nvalues < MaxValues
  /\ \E elem_type \in ElemType :
       LET elem == nvalues + 1
           r == add_elem(backend, elem, elem_type)
       IN /\ backend' = r.b
          /\ result' = r.res
          /\ calls' = <<[call |-> <<"add_elem", elem, elem_type>>,
                         res |-> r.res]>>
          /\ op' = "add_elem"
          /\ nvalues' = nvalues + 1
          /\ UNCHANGED <<cur_file, cur_elem_id, elem_stack, parent_stack, pc,
                         ctl, lastId, allocated, tree, cnt, failed, core,
                         rare, seen, db, other, script>>

NextElemTypes == add_elem_of_any_type

SpecElemTypes == InitElemTypes /\ [][NextElemTypes]_vars

\* the tag of each element type; the types without one are refused
TagOfElemType ==
  [Bool |-> "Bool",
   I8 |-> "Number", I16 |-> "Number", I32 |-> "Number", I64 |-> "Number",
   U8 |-> "Number", U16 |-> "Number", U32 |-> "Number", U64 |-> "Number",
   Char |-> "Str", Str |-> "Str",
   Map |-> "Map", Seq |-> "Seq", Struct |-> "Struct",
   StructVariant |-> "StructVariant", Tuple |-> "Tuple", Unit |-> "Unit",
   UnitStruct |-> "UnitStruct", UnitVariant |-> "UnitVariant",
   TupleStruct |-> "TupleStruct", NewtypeStruct |-> "TupleStruct",
   TupleVariant |-> "TupleVariant", NewtypeVariant |-> "TupleVariant"]

RefusedElemTypes == {"F32", "F64", "Bytes"}

(***************************************************************************)
(* C35: add_elem of the in-memory backend appends exactly one type row     *)
(* <<elem, symbol of the tag>> for an element type with a tag (Bool; the   *)
(* eight integer widths as Number; Char and Str as Str; the containers and *)
(* units under their own name; the newtype struct as TupleStruct and the   *)
(* newtype variant as TupleVariant) and changes no other relation; for     *)
(* F32, F64 and Bytes it returns UnextractableData and files nothing.      *)
(***************************************************************************)
C35_TypeTagOfElemType ==
  [][op' = "add_elem" =>
       LET c == calls'[1].call
       IN /\ c[3] \in DOMAIN TagOfElemType \cup RefusedElemTypes
          /\ IF c[3] \in RefusedElemTypes
             THEN result' = UnextractableData /\ backend' = backend
             ELSE /\ result' = Ok
                  /\ TagOfElemType[c[3]] \in DOMAIN backend'.symbol_table
                  /\ backend'.type_table =
                       Append(backend.type_table,
                              <<c[2], backend'.symbol_table[TagOfElemType[c[3]]]>>)
                  /\ \A t \in Tables \ {"symbol_table"} :
                       backend'[t] = backend[t]]_vars

\* a newtype variant was filed under the tag TupleVariant after a float
\* was refused
C35_Witness ==
  /\ op = "add_elem" /\ nvalues = 2 /\ result = Ok
  /\ calls[1].call = <<"add_elem", 2, "NewtypeVariant">>
  /\ backend.type_table = <<<<2, backend.symbol_table["TupleVariant"]>>>>

(***************************************************************************)
(* The foreign keys of the schema: for each table the columns that name a  *)
(* row of another table, <<column, table named>>.                          *)
(***************************************************************************)
ForeignKeys(kind, table) ==
  CASE table \in {"_bool", "_number"} -> {<<1, "_type">>}
    [] table = "_string" -> {<<1, "_type">>, <<2, "__SymbolTable">>}
    [] table = "_struct" ->
         {<<1, "_type">>, <<2, "__SymbolTable">>, <<3, "_type">>}
    [] table \in {"_seq", "_tuple"} -> {<<1, "_type">>, <<3, "_type">>}
    [] table = "_structType" -> {<<1, "_type">>, <<2, "__SymbolTable">>}
    [] table = "_variantType" ->
         {<<1, "_type">>, <<2, "__SymbolTable">>, <<3, "__SymbolTable">>}
    [] table = "_map" ->
         {<<1, "_type">>,
          <<2, IF kind = "sqlite_string" THEN "__SymbolTable" ELSE "_type">>,
          <<3, "_type">>}
    [] OTHER -> {}

\* the tables a foreign key leaves
ReferringTables ==
  {"_bool", "_number", "_string", "_struct", "_seq", "_tuple", "_structType",
   "_variantType", "_map"}

\* the file holds a row of the table under the primary key
HasRow(file, table, key) ==
  \E r \in file.rows : r[1] = table /\ r[2] = key

\* the statement dump_to_db runs next
NextStatement == Statements(backend)[db.at]

(***************************************************************************)
(* C36: when dump_to_db inserts a row into _bool, _number, _string,        *)
(* _struct, _seq, _tuple, _structType, _variantType or _map, the file      *)
(* holds every __SymbolTable row and every _type row of the run, and each  *)
(* foreign key of the row names a row the file holds.                      *)
(***************************************************************************)
C36_ReferencedRowsFirst ==
  [][(db.pc = "run" /\ db'.at = db.at + 1 /\ NextStatement[1] = "insert"
        /\ NextStatement[2] \in ReferringTables) =>
       /\ \A x \in DOMAIN backend.symbol_table :
            HasRow(db.file, "__SymbolTable", backend.symbol_table[x])
       /\ \A i \in DOMAIN backend.type_table :
            HasRow(db.file, "_type", backend.type_table[i][1])
       /\ \A fk \in ForeignKeys(backend.kind, NextStatement[2]) :
            HasRow(db.file, fk[2], NextStatement[4][fk[1]])]_vars

\* a map row of the string-keyed store was inserted: its key is a symbol
C36_Witness ==
  /\ db.pc \in {"run", "done"} /\ backend.kind = "sqlite_string"
  /\ \E r \in db.file.rows :
       /\ r[1] = "_map"
       /\ HasRow(db.file, "__SymbolTable", r[3][2])
       /\ HasRow(db.file, "_type", r[3][3])

(***************************************************************************)
(* C37: the position of an open map's pair on the parent stack is 0 when   *)
(* the map is begun, one more after each entry filed, and so the number of *)
(* the map's entries when the map ends.                                    *)
(***************************************************************************)
\* the entries filed for the map id
MapEntries(b, id) == {k \in DOMAIN b.map_table : k[1] = id}

C37_MapPositionCounts ==
  [][/\ (op' = "serialize_map" /\ pc' = "open") =>
          Last(parent_stack') = <<Last(allocated'), 0>>
     /\ (op' = "serialize_value" /\ pc' = "open") =>
          /\ Len(parent_stack') = Len(parent_stack)
          /\ Last(parent_stack')[1] = Last(parent_stack)[1]
          /\ Last(parent_stack')[2] = Last(parent_stack)[2] + 1
     /\ (op' = "end" /\ pc' = "ret" /\ ctl # <<>> /\ Top(ctl).k = "Map"
           /\ parent_stack # <<>>) =>
          Last(parent_stack)[2]
            = Cardinality(MapEntries(backend, Last(parent_stack)[1]))]_vars

====
